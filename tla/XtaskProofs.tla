---------------------------- MODULE XtaskProofs ----------------------------
(***************************************************************************)
(* An invocation from its arguments to its verdict.  Proved for any        *)
(* invocations, kernels, machines, topologies and processes, in this       *)
(* order: however it ends, it ends clean (the hooks and their process, the *)
(* verdict and each of the two settings have an invariant of their own);   *)
(* in between, truetop's report shows a wait once and lists the leaders;   *)
(* the walks through a kernel's types give the format's answers, so the    *)
(* hooks read through this kernel's offsets; and everything keeps its type.*)
(***************************************************************************)
EXTENDS Xtask, FiniteSetTheorems, WellFoundedInduction, TLAPS

(* truetop runs while xtask waits for it, and its hooks are attached only  *)
(* in between.                                                             *)
Hooks ==
    /\ xt \in {"dispatch", "build"} => at = "idle"
    /\ xt # "truetop" => at \in {"idle", "exit"}
    /\ at \in {"idle", "exit"} => attached = {}
    /\ at \notin {"drop", "exit"} => status = "none"

(* Nothing that went wrong is forgotten, nor what was kept to restore.     *)
Verdict ==
    /\ fault \in BOOLEAN
    /\ xt # "done" => verdict = "none" /\ (fault => xt = "restore")
    /\ xt = "done" => perf = NoPerf /\ verdict = IF fault THEN "err" ELSE "ok"
    /\ xt \in {"dispatch", "build", "truetop"} => picks = <<>>
    /\ xt \in {"restore", "done"} /\ ~fault => picks = <<>>
    /\ xt \in {"tune", "turbo"} => perf.turbo = {}
    /\ perf # NoPerf => xt \in {"turbo", "list", "restore"}
    /\ verb = "run" => /\ xt \in {"dispatch", "build", "truetop", "done"}
                       /\ xt = "done" /\ ~fault => status = "ok"

Before == {"dispatch", "build", "prepare", "tune"}

(* Where nothing was written nothing changed.  The governor that is kept   *)
(* is cpu0's, and it is kept when every CPU was tuned; else, and once it   *)
(* is restored, each CPU has what it is left with.                         *)
Governor ==
    /\ DOMAIN governor = DOMAIN found.governor /\ 1 \in CPUs
    /\ \A c \in CPUs : governor[c] = "absent" <=> found.governor[c] = "absent"
    /\ tuned \subseteq Governed
    /\ \A c \in CPUs \ tuned : governor[c] = found.governor[c]
    /\ xt \in Before => tuned = {} /\ perf.governor = {}
    /\ perf.governor # {} =>
          perf.governor = {found.governor[1]} /\ found.governor[1] # "absent" /\ tuned = Governed
    /\ perf.governor = {} =>
          \A c \in tuned \ refused :
             governor[c] = IF tuned = Governed THEN found.governor[1] ELSE "performance"

Turbo ==
    /\ found.turbo \in [DOMAIN TURBO_OFF -> STRING]
    /\ TURBO \notin refused =>
          \/ perf.turbo = {} /\ turbo = found.turbo
          \/ \E k \in DOMAIN found.turbo :
                /\ perf.turbo = {<<k, found.turbo[k]>>}
                /\ turbo = [found.turbo EXCEPT ![k] = TURBO_OFF[k]]

Perf == perf = [governor |-> perf.governor, turbo |-> perf.turbo]

Clean == Hooks /\ Verdict /\ Perf /\ Governor /\ Turbo

-----------------------------------------------------------------------------
LEMMA InitClean == Init => Clean
  <1> SUFFICES ASSUME Init PROVE Clean
    OBVIOUS
  <1>1. PICK i \in Invocations :
          /\ xt = "dispatch"
          /\ governor = i.machine.governor /\ turbo = i.machine.turbo /\ found = i.machine
          /\ picks = <<>> /\ perf = NoPerf /\ verdict = "none" /\ tuned = {} /\ fault = FALSE
          /\ at = "idle" /\ Ready(<<>>)
    BY DEF Init
  <1>2. Hooks
    BY <1>1 DEF Hooks, Ready
  <1>3. Verdict
    BY <1>1 DEF Verdict
  <1>4. perf.governor = {} /\ perf.turbo = {}
    BY <1>1 DEF NoPerf
  <1>5. Governor /\ Turbo /\ Perf
    BY <1>1, <1>4, MachinesAssumption DEF Governor, Governed, CPUs, Turbo, Perf, NoPerf
  <1>6. QED
    BY <1>2, <1>3, <1>5 DEF Clean

-----------------------------------------------------------------------------
(* What a step of truetop is to its process. *)
Goes == /\ at \notin {"idle", "drop", "exit"} /\ at' \notin {"idle", "drop", "exit"}
        /\ UNCHANGED status
Stops == /\ at \notin {"idle", "drop", "exit"} /\ at' = "drop"
         /\ status' \in {"ok", "err", "hint"}
Drops == at = "drop" /\ at' = "exit" /\ attached' = {} /\ UNCHANGED status

LEMMA ChildStep == Truetop => Goes \/ Stops \/ Drops
  <1> SUFFICES ASSUME Truetop PROVE Goes \/ Stops \/ Drops
    OBVIOUS
  <1> USE DEF Goes, Stops, Drops, Leave, Refused, startup, ending
  <1>1. CASE Parse
    <2>1. at = "parse" /\ (ParsePrint \/ ParseOption \/ ParseEnd \/ ParseError)
      BY <1>1 DEF Parse
    <2>2. QED
      BY <2>1 DEF ParsePrint, ParseOption, ParseEnd, ParseError
  <1>2. CASE Detect
    BY <1>2 DEF Detect
  <1>3. CASE Ask \/ WalkStep \/ Answer \/ NoOffset
    BY <1>3 DEF Ask, WalkStep, Answer, NoOffset, Resolving
  <1>4. CASE Load \/ attach_raw_tracepoint \/ attach_creds \/ TakeMaps
    BY <1>4 DEF Load, attach_raw_tracepoint, attach_creds, TakeMaps
  <1>5. CASE Time \/ TickBegins \/ TickEnds
    BY <1>5 DEF Time, TickBegins, TickEnds, Running
  <1>6. CASE BenchEnds \/ UiEnds
    BY <1>6 DEF BenchEnds, UiEnds, Running
  <1>7. CASE Drop
    BY <1>7 DEF Drop
  <1>8. QED
    BY <1>1, <1>2, <1>3, <1>4, <1>5, <1>6, <1>7 DEF Truetop, TruetopWorks

LEMMA NextHooks == Hooks /\ [Next]_vars => Hooks'
  <1> SUFFICES ASSUME Hooks, [Next]_vars PROVE Hooks'
    OBVIOUS
  <1>1. CASE Child(Truetop)
    <2>1. xt = "truetop" /\ xt' = xt
      BY <1>1 DEF Child, xtask
    <2>2. Goes \/ Stops \/ Drops
      BY <1>1, ChildStep DEF Child
    <2>3. CASE Goes
      BY <2>1, <2>3 DEF Goes, Hooks
    <2>4. CASE Stops
      BY <2>1, <2>4 DEF Stops, Hooks
    <2>5. CASE Drops
      BY <2>1, <2>5 DEF Drops, Hooks
    <2>6. QED
      BY <2>2, <2>3, <2>4, <2>5
  <1>2. CASE Build
    BY <1>2 DEF Build, Fail, Done, ending, Hooks
  <1>3. CASE UNCHANGED <<at, attached, status>> /\ xt' \notin {"dispatch", "build"}
             /\ (xt # "truetop" \/ at = "exit")
    BY <1>3 DEF Hooks
  <1>4. CASE Dispatch
    BY <1>4 DEF Dispatch, Fail, Done, truetop, startup, ending, Hooks
  <1>5. CASE Returned \/ ListEnds
    BY <1>3, <1>5 DEF Returned, ListEnds, Succeed, Fail, Done, truetop, startup, ending
  <1>6. CASE RunSuite \/ RunPick \/ FetchFixture
    BY <1>3, <1>6 DEF RunSuite, RunPick, FetchFixture, More, Fail, Done, truetop, startup, ending
  <1>7. CASE BenchArgument
    BY <1>3, <1>7 DEF BenchArgument, Fail, Done, truetop, startup, ending
  <1>8. CASE Prepare
    BY <1>3, <1>8 DEF Prepare, Fail, Done, truetop, startup, ending
  <1>9. CASE Engage
    BY <1>3, <1>9 DEF Engage, EngageGovernor, EngageTurbo, truetop, startup, ending
  <1>10. CASE Restore
    BY <1>3, <1>10 DEF Restore, Done, truetop, startup, ending
  <1>11. CASE UNCHANGED vars
    BY <1>11 DEF vars, truetop, startup, ending, xtask, Hooks
  <1>12. QED
    BY <1>1, <1>2, <1>4, <1>5, <1>6, <1>7, <1>8, <1>9, <1>10, <1>11 DEF Next, Works

-----------------------------------------------------------------------------
(* An end of the work, well or not. *)
LEMMA Ends ==
    ASSUME Verdict, xt # "done", xt # "restore", UNCHANGED perf,
           verb' = verb, verb = "run" => perf = NoPerf,
           Fail \/ (Succeed /\ picks' = <<>> /\ (verb = "run" => status' = "ok"))
    PROVE  Verdict'
  <1>1. fault = FALSE /\ verdict = "none"
    BY DEF Verdict
  <1>2. CASE Fail
    BY <1>1, <1>2 DEF Fail, Done, Verdict
  <1>3. CASE Succeed /\ picks' = <<>> /\ (verb = "run" => status' = "ok")
    BY <1>1, <1>3 DEF Succeed, Done, Verdict
  <1>4. QED
    BY <1>2, <1>3

LEMMA PerfGovernor ==
    ASSUME Perf, NEW g
    PROVE  [perf EXCEPT !.governor = g] = [governor |-> g, turbo |-> perf.turbo]
  BY DEF Perf

LEMMA PerfTurbo ==
    ASSUME Perf, NEW t
    PROVE  [perf EXCEPT !.turbo = t] = [governor |-> perf.governor, turbo |-> t]
  BY DEF Perf

LEMMA NextVerdict == Perf /\ Verdict /\ [Next]_vars => Verdict'
  <1> SUFFICES ASSUME Perf, Verdict, [Next]_vars PROVE Verdict'
    OBVIOUS
  <1> USE DEF settings
  <1>0. verb = "run" => perf = NoPerf
    BY DEF Verdict
  <1>1. CASE Child(Truetop)
    BY <1>1 DEF Child, xtask, machine, Verdict
  <1>2. CASE Dispatch
    <2>1. CASE Fail
      BY <1>0, <1>2, <2>1, Ends DEF Dispatch
    <2>2. CASE ~Fail
      BY <1>2, <2>2 DEF Dispatch, Verdict, truetop, startup, ending
    <2>3. QED
      BY <2>1, <2>2
  <1>3. CASE Build
    <2>1. CASE Fail
      BY <1>0, <1>3, <2>1, Ends DEF Build
    <2>2. CASE ~Fail
      BY <1>3, <2>2 DEF Build, Verdict, ending
    <2>3. QED
      BY <2>1, <2>2
  <1>4. CASE Returned
    <2>1. picks = <<>> /\ xt = "truetop" /\ UNCHANGED <<perf, verb, picks, status>>
      BY <1>4 DEF Returned, Verdict, truetop, startup, ending
    <2>2. QED
      BY <1>0, <1>4, <2>1, Ends DEF Returned
  <1>5. CASE RunSuite \/ RunPick \/ FetchFixture
    <2>1. xt = "list" /\ UNCHANGED <<perf, verb, status>>
      BY <1>5 DEF RunSuite, RunPick, FetchFixture, More, truetop, startup, ending
    <2>2. CASE Fail
      BY <1>0, <2>1, <2>2, Ends
    <2>3. CASE UNCHANGED <<xt, verdict, fault>>
      BY <2>1, <2>3 DEF Verdict
    <2>4. QED
      BY <1>5, <2>2, <2>3 DEF RunSuite, RunPick, FetchFixture
  <1>6. CASE ListEnds
    <2>1. picks' = <<>> /\ xt = "list" /\ UNCHANGED <<perf, verb, picks>> /\ verb # "run"
      BY <1>6 DEF ListEnds, Verdict
    <2>2. QED
      BY <1>0, <1>6, <2>1, Ends DEF ListEnds
  <1>7. CASE BenchArgument
    <2>1. xt = "prepare" /\ UNCHANGED <<perf, verb>> /\ verb # "run" /\ perf = NoPerf
      BY <1>7 DEF BenchArgument, Verdict
    <2>2. CASE Fail
      BY <1>0, <2>1, <2>2, Ends
    <2>3. CASE Done(TRUE) /\ picks' = <<>> /\ UNCHANGED fault
      BY <2>1, <2>3 DEF Done, Verdict
    <2>4. CASE UNCHANGED <<xt, verdict, fault>>
      BY <2>1, <2>4 DEF Verdict
    <2>5. QED
      BY <1>7, <2>2, <2>3, <2>4 DEF BenchArgument
  <1>8. CASE Prepare
    <2>1. xt = "prepare" /\ UNCHANGED <<perf, verb>> /\ verb # "run" /\ perf = NoPerf
      BY <1>8 DEF Prepare, Verdict
    <2>2. CASE Fail
      BY <1>0, <2>1, <2>2, Ends
    <2>3. CASE xt' \in {"tune", "list"} /\ UNCHANGED <<verdict, fault>>
      BY <2>1, <2>3 DEF Verdict, NoPerf
    <2>4. QED
      BY <1>8, <2>2, <2>3 DEF Prepare
  <1>9. CASE Engage
    <2>1. UNCHANGED <<verb, picks, verdict, fault>> /\ verb # "run" /\ fault = FALSE /\ verdict = "none"
      BY <1>9 DEF Engage, EngageGovernor, EngageTurbo, Verdict
    <2>2. CASE EngageGovernor
      <3>1. xt = "tune" /\ xt' = "turbo" /\ perf.turbo = {}
        BY <2>2 DEF EngageGovernor, Verdict
      <3>2. perf'.turbo = {}
        BY <2>2, <3>1, PerfGovernor DEF EngageGovernor
      <3>3. QED
        BY <2>1, <3>1, <3>2 DEF Verdict
    <2>3. CASE EngageTurbo
      BY <2>1, <2>3 DEF EngageTurbo, Verdict
    <2>4. QED
      BY <1>9, <2>2, <2>3 DEF Engage
  <1>10. CASE Restore
    BY <1>10 DEF Restore, Done, Verdict
  <1>11. CASE UNCHANGED vars
    BY <1>11 DEF vars, truetop, startup, ending, xtask, machine, Verdict
  <1>12. QED
    BY <1>1, <1>2, <1>3, <1>4, <1>5, <1>6, <1>7, <1>8, <1>9, <1>10, <1>11 DEF Next, Works

-----------------------------------------------------------------------------
(* Outside of the tuning and its restoring the settings are left alone.    *)
LEMMA Others ==
    ASSUME [Next]_vars, ~Engage, ~Restore
    PROVE  UNCHANGED <<governor, turbo, perf, found, tuned, refused>> /\ (xt' \in Before => xt \in Before)
  <1> USE DEF settings, machine, Before, Fail, Succeed, Done
  <1>1. CASE Child(Truetop) \/ UNCHANGED vars
    BY <1>1 DEF Child, xtask, vars
  <1>2. CASE Dispatch \/ Build \/ Returned
    BY <1>2 DEF Dispatch, Build, Returned
  <1>3. CASE RunSuite \/ RunPick \/ FetchFixture \/ ListEnds
    BY <1>3 DEF RunSuite, RunPick, FetchFixture, ListEnds, More
  <1>4. CASE BenchArgument \/ Prepare
    BY <1>4 DEF BenchArgument, Prepare
  <1>5. QED
    BY <1>1, <1>2, <1>3, <1>4 DEF Next, Works

(* Stopped, tuned or restored, the record keeps its two fields.            *)
LEMMA NextPerf == Perf /\ [Next]_vars => Perf'
  <1> SUFFICES ASSUME Perf, [Next]_vars PROVE Perf'
    OBVIOUS
  <1>1. CASE perf' = perf
    BY <1>1 DEF Perf
  <1>2. CASE \E g : perf' = [perf EXCEPT !.governor = g]
    BY <1>2, PerfGovernor DEF Perf
  <1>3. CASE \E t : perf' = [perf EXCEPT !.turbo = t]
    BY <1>3, PerfTurbo DEF Perf
  <1>4. CASE perf' = NoPerf
    BY <1>4 DEF Perf, NoPerf
  <1>5. CASE Engage
    BY <1>1, <1>2, <1>3, <1>5 DEF Engage, EngageGovernor, EngageTurbo
  <1>6. CASE Restore
    BY <1>2, <1>4, <1>6 DEF Restore
  <1>7. QED
    BY <1>1, <1>5, <1>6, Others

LEMMA Value == \A v : value({v}) = v
  BY DEF value

(* A write leaves no governor empty, and none but those written changed.   *)
LEMMA Written ==
    ASSUME Governor, NEW v, v # "absent", NEW written \in SUBSET Governed, WriteGovernor(v, written)
    PROVE  /\ DOMAIN governor' = DOMAIN governor
           /\ \A c \in written : governor'[c] = v
           /\ \A c \in CPUs \ written : governor'[c] = governor[c]
           /\ \A c \in CPUs : governor'[c] = "absent" <=> governor[c] = "absent"
           /\ Governed' = Governed
  <1>1. /\ DOMAIN governor' = DOMAIN governor
        /\ \A c \in CPUs : governor'[c] = IF c \in written THEN v ELSE governor[c]
    BY DEF WriteGovernor, CPUs
  <1>2. written \subseteq CPUs /\ \A c \in written : governor[c] # "absent"
    BY DEF Governed
  <1>3. \A c \in CPUs : governor'[c] = "absent" <=> governor[c] = "absent"
    BY <1>1, <1>2
  <1>4. Governed' = {c \in DOMAIN governor : governor'[c] # "absent"}
    BY <1>1 DEF Governed, CPUs
  <1>5. Governed' = Governed
    BY <1>3, <1>4 DEF Governed, CPUs
  <1>6. QED
    BY <1>1, <1>2, <1>3, <1>5

LEMMA NextGovernor == Perf /\ Verdict /\ Governor /\ [Next]_vars => Governor'
  <1> SUFFICES ASSUME Perf, Verdict, Governor, [Next]_vars PROVE Governor'
    OBVIOUS
  <1>1. CASE ~Engage /\ ~Restore
    BY <1>1, Others DEF Governor, Governed, CPUs
  <1>2. CASE EngageGovernor /\ UNCHANGED <<governor, perf, tuned, found>>
    BY <1>2 DEF EngageGovernor, Governor, Governed, CPUs, Before
  <1>3. CASE EngageGovernor /\ ~UNCHANGED <<governor, perf, tuned>> /\ found' = found
    <2>1. PICK written \in SUBSET Governed :
            /\ WriteGovernor("performance", written)
            /\ perf' = IF written = Governed THEN [perf EXCEPT !.governor = {governor[1]}] ELSE perf
            /\ tuned' = written
      BY <1>3 DEF EngageGovernor
    <2>2. /\ tuned = {} /\ perf.governor = {} /\ xt' \notin Before
          /\ governor[1] # "absent" /\ \A c \in CPUs : governor[c] = found.governor[c]
      BY <1>3 DEF EngageGovernor, Governor, Before
    <2>3. /\ DOMAIN governor' = DOMAIN governor /\ Governed' = Governed
          /\ \A c \in written : governor'[c] = "performance"
          /\ \A c \in CPUs \ written : governor'[c] = governor[c]
          /\ \A c \in CPUs : governor'[c] = "absent" <=> governor[c] = "absent"
      BY <2>1, Written
    <2>4. perf'.governor = IF written = Governed THEN {found.governor[1]} ELSE {}
      BY <2>1, <2>2, PerfGovernor DEF Governor
    <2>5. QED
      BY <1>3, <2>1, <2>2, <2>3, <2>4 DEF Governor, CPUs
  <1>4. CASE EngageTurbo /\ found' = found
    <2>1. UNCHANGED <<governor, tuned, refused>> /\ xt' = "list"
      BY <1>4 DEF EngageTurbo
    <2>2. perf'.governor = perf.governor
      BY <1>4, PerfTurbo DEF EngageTurbo
    <2>3. QED
      BY <1>4, <2>1, <2>2 DEF Governor, Governed, CPUs, Before
  <1>5. CASE Restore
    <2>1. xt = "restore" /\ found' = found /\ tuned' = tuned
      BY <1>5 DEF Restore
    <2>2. CASE perf.governor # {}
      <3>1. PICK written \in SUBSET Governed :
              /\ WriteGovernor(value(perf.governor), written)
              /\ refused' = refused \cup (Governed \ written)
        BY <1>5, <2>2 DEF Restore
      <3>2. perf'.governor = {} /\ xt' = xt
        BY <1>5, <2>2, PerfGovernor DEF Restore
      <3>3. perf.governor = {found.governor[1]} /\ found.governor[1] # "absent" /\ tuned = Governed
        BY <2>2 DEF Governor
      <3>4. value(perf.governor) = found.governor[1]
        BY <3>3, Value
      <3>5. /\ DOMAIN governor' = DOMAIN governor /\ Governed' = Governed
            /\ \A c \in written : governor'[c] = found.governor[1]
            /\ \A c \in CPUs \ written : governor'[c] = governor[c]
            /\ \A c \in CPUs : governor'[c] = "absent" <=> governor[c] = "absent"
        <4>1. WriteGovernor(found.governor[1], written)
          BY <3>1, <3>4 DEF WriteGovernor
        <4>2. QED
          BY <3>3, <4>1, Written
      <3>6. \A c \in tuned' \ refused' : governor'[c] = found.governor[1]
        BY <2>1, <3>1, <3>3, <3>5
      <3>7. QED
        BY <2>1, <3>1, <3>2, <3>3, <3>5, <3>6 DEF Governor, CPUs, Before
    <2>3. CASE perf.governor = {}
      <3>1. governor' = governor /\ xt' = "done" /\ perf'.governor = {} /\ refused \subseteq refused'
        BY <1>5, <2>3 DEF Restore, Done, NoPerf
      <3>2. QED
        BY <2>1, <2>3, <3>1 DEF Governor, Governed, CPUs, Before
    <2>4. QED
      BY <2>2, <2>3
  <1>6. QED
    BY <1>1, <1>2, <1>3, <1>4, <1>5 DEF Engage

LEMMA FirstKnob ==
    ASSUME Knobs # {}, DOMAIN turbo = DOMAIN TURBO_OFF
    PROVE  Min(Knobs) \in DOMAIN turbo
  <1>0. DOMAIN turbo = 1..2
    BY DEF TURBO_OFF
  <1>1. Knobs \subseteq 1..2
    BY <1>0 DEF Knobs
  <1>2. \E k \in Knobs : \A n \in Knobs : k =< n
    <2>1. CASE 1 \in Knobs
      BY <1>1, <2>1
    <2>2. CASE 1 \notin Knobs
      <3>1. \A n \in Knobs : n = 2
        BY <1>1, <2>2
      <3>2. QED BY <3>1
    <2>3. QED BY <2>1, <2>2
  <1>3. Min(Knobs) \in Knobs
    BY <1>2 DEF Min
  <1>4. QED
    BY <1>3 DEF Knobs

LEMMA NextTurbo == Perf /\ Verdict /\ Turbo /\ [Next]_vars => Turbo'
  <1> SUFFICES ASSUME Perf, Verdict, Turbo, [Next]_vars PROVE Turbo'
    OBVIOUS
  <1>1. CASE ~Engage /\ ~Restore
    BY <1>1, Others DEF Turbo, TURBO_OFF
  <1>2. CASE Engage
    <2>1. xt \in {"tune", "turbo"} /\ found' = found /\ (EngageGovernor \/ EngageTurbo)
      BY <1>2 DEF Engage, EngageGovernor, EngageTurbo
    <2>2. perf.turbo = {}
      BY <2>1 DEF Verdict
    <2>3. CASE EngageGovernor
      <3>1. turbo' = turbo /\ (TURBO \in refused => TURBO \in refused')
        BY <2>3 DEF EngageGovernor, WriteGovernor
      <3>2. perf'.turbo = {}
        BY <2>2, <2>3, PerfGovernor DEF EngageGovernor
      <3>3. QED
        BY <2>1, <2>2, <3>1, <3>2 DEF Turbo
    <2>4. CASE EngageTurbo /\ UNCHANGED <<turbo, perf>>
      BY <2>1, <2>2, <2>4 DEF EngageTurbo, Turbo
    <2>5. CASE EngageTurbo /\ ~UNCHANGED <<turbo, perf>>
      <3> DEFINE k == Min(Knobs)
      <3>1. /\ turbo' = [turbo EXCEPT ![k] = TURBO_OFF[k]]
            /\ perf' = [perf EXCEPT !.turbo = {<<k, turbo[k]>>}]
            /\ refused' = refused
        BY <2>5 DEF EngageTurbo
      <3> HIDE DEF k
      <3>2. perf'.turbo = {<<k, turbo[k]>>}
        BY <3>1, PerfTurbo
      <3>3. CASE TURBO \notin refused
        <4>1. turbo = found.turbo
          BY <2>2, <3>3 DEF Turbo
        <4>2. k \in DOMAIN found.turbo
          BY <2>5, <4>1, FirstKnob DEF k, EngageTurbo, Turbo
        <4>3. QED
          BY <2>1, <3>1, <3>2, <4>1, <4>2 DEF Turbo, TURBO_OFF
      <3>4. QED
        BY <2>1, <3>1, <3>3 DEF Turbo
    <2>6. QED
      BY <2>1, <2>3, <2>4, <2>5
  <1>3. CASE Restore
    <2>1. found' = found
      BY <1>3 DEF Restore
    <2>2. CASE perf.governor # {}
      <3>1. turbo' = turbo /\ (TURBO \in refused => TURBO \in refused')
        BY <1>3, <2>2 DEF Restore, WriteGovernor
      <3>2. perf'.turbo = perf.turbo
        BY <1>3, <2>2, PerfGovernor DEF Restore
      <3>3. QED
        BY <2>1, <3>1, <3>2 DEF Turbo, TURBO_OFF
    <2>3. CASE perf.governor = {}
      <3>1. perf'.turbo = {}
        BY <1>3, <2>3 DEF Restore, NoPerf
      <3>2. CASE TURBO \notin refused'
        <4>1. /\ TURBO \notin refused
              /\ turbo' = [k \in DOMAIN turbo |->
                              IF \E t \in perf.turbo : t[1] = k THEN value(perf.turbo)[2] ELSE turbo[k]]
          BY <1>3, <2>3, <3>2 DEF Restore
        <4>2. CASE perf.turbo = {} /\ turbo = found.turbo
          <5>1. turbo' = found.turbo
            BY <4>1, <4>2 DEF Turbo
          <5>2. QED
            BY <2>1, <3>1, <5>1 DEF Turbo
        <4>3. CASE \E k \in DOMAIN found.turbo :
                      /\ perf.turbo = {<<k, found.turbo[k]>>}
                      /\ turbo = [found.turbo EXCEPT ![k] = TURBO_OFF[k]]
          <5>1. PICK k \in DOMAIN found.turbo :
                      /\ perf.turbo = {<<k, found.turbo[k]>>}
                      /\ turbo = [found.turbo EXCEPT ![k] = TURBO_OFF[k]]
            BY <4>3
          <5>2. value(perf.turbo) = <<k, found.turbo[k]>>
            BY <5>1, Value
          <5>3. value(perf.turbo)[2] = found.turbo[k]
            BY <5>2
          <5>4. \A n \in DOMAIN found.turbo : (\E t \in perf.turbo : t[1] = n) <=> n = k
            BY <5>1
          <5>5. DOMAIN turbo = DOMAIN found.turbo /\ \A n \in DOMAIN turbo : n # k => turbo[n] = found.turbo[n]
            BY <5>1 DEF Turbo
          <5>6. turbo' = [n \in DOMAIN found.turbo |-> found.turbo[n]]
            BY <4>1, <5>3, <5>4, <5>5
          <5>7. turbo' = found.turbo
            BY <5>6 DEF Turbo
          <5>8. QED
            BY <2>1, <3>1, <5>7 DEF Turbo
        <4>4. QED
          BY <4>1, <4>2, <4>3 DEF Turbo
      <3>3. QED
        BY <2>1, <3>2 DEF Turbo
    <2>4. QED
      BY <2>2, <2>3
  <1>4. QED
    BY <1>1, <1>2, <1>3

-----------------------------------------------------------------------------
LEMMA CleanHolds == Spec => []Clean
  <1>1. Clean /\ [Next]_vars => Clean'
    BY NextHooks, NextVerdict, NextPerf, NextGovernor, NextTurbo DEF Clean
  <1>2. QED
    BY <1>1, InitClean, PTL DEF Spec

(* However an invocation ends, through its list, an error in it, truetop's *)
(* own end or help: no hook is attached; each CPU the restore could write  *)
(* is as found, or as cpu0 was found if every CPU was tuned, or, if only   *)
(* some were, at performance; the turbo knob is as found if it could be    *)
(* written; and success is reported exactly when nothing went wrong.       *)
THEOREM AlwaysEndsClean == Spec => []EndsClean
  <1>1. Clean => EndsClean
    <2> SUFFICES ASSUME Clean, xt = "done"
                 PROVE  attached = {} /\ CpuIsRestored /\ VerdictIsTrue
      BY DEF EndsClean
    <2>1. attached = {}
      BY DEF Clean, Hooks
    <2>2. perf.governor = {} /\ perf.turbo = {}
      BY DEF Clean, Verdict, NoPerf
    <2>3. CpuIsRestored
      <3>1. TURBO \notin refused => turbo = found.turbo
        BY <2>2 DEF Clean, Turbo
      <3>2. ASSUME NEW c \in CPUs \ refused
            PROVE  /\ c \notin tuned => governor[c] = found.governor[c]
                   /\ c \in tuned => governor[c] = IF tuned = Governed THEN found.governor[1] ELSE "performance"
        BY <2>2 DEF Clean, Governor
      <3>3. QED
        BY <3>1, <3>2 DEF CpuIsRestored
    <2>4. VerdictIsTrue
      BY DEF Clean, Hooks, Verdict, VerdictIsTrue
    <2>5. QED
      BY <2>1, <2>3, <2>4
  <1>2. QED
    BY <1>1, CleanHolds, PTL
-----------------------------------------------------------------------------
(* truetop's own state has its types: an accounting map gets its entries   *)
(* once the arguments are read, and no hook beyond the last is attached.   *)
Launched ==
    /\ StartupTypeOK
    /\ entries \in Nat /\ capacity \in Nat
    /\ at \in {"idle", "parse", "cpus"} => entries = 0
    /\ step \in Nat \ {0} /\ (at = "attach" => step \in 1..4)

LEMMA Counts == \A a \in DOMAIN count : count[a] \in Nat
  BY DEF count

LEMMA DefaultSize ==
    ASSUME NEW p \in Nat \ {0}
    PROVE  default_max_processes(p) \in FLOOR..CEILING
  <1>1. FLOOR \in Nat /\ CEILING \in Nat /\ BUDGET_PER_MAP \in Nat /\ FLOOR <= CEILING
    BY SizesAssumption
  <1>2. 8 * p \in Nat \ {0}
    OBVIOUS
  <1>3. BUDGET_PER_MAP \div (8 * p) \in Int
    BY <1>1, <1>2
  <1>4. ASSUME NEW v \in Int PROVE Clamp(v, FLOOR, CEILING) \in FLOOR..CEILING
    BY <1>1 DEF Clamp
  <1>5. QED
    BY <1>3, <1>4 DEF default_max_processes

LEMMA ParseLaunches ==
    ASSUME Launched, Parse
    PROVE  Launched'
  <1> USE DEF Launched, StartupTypeOK
  <1>1. at = "parse" /\ UNCHANGED <<entries, step, globals, attached, report>>
    BY DEF Parse
  <1>2. UNCHANGED capacity
    BY <1>1 DEF report
  <1>3. CASE ParsePrint
    <2>1. [kind |-> "Print", ticks |-> 0] \in Commands
      BY DEF Commands
    <2>2. QED
      BY <1>1, <1>2, <1>3, <2>1 DEF ParsePrint, Leave
  <1>4. CASE ParseOption
    <2>1. Option
      BY <1>4 DEF ParseOption
    <2>2. command' \in Commands
      <3>1. CASE Head(argv) = "--bench"
        <4>1. argv[2] \in DOMAIN count
          BY <2>1, <3>1 DEF Option, Accepts
        <4>2. command' = [kind |-> "Bench", ticks |-> count[argv[2]]]
          BY <1>4, <3>1 DEF ParseOption
        <4>3. QED
          BY <4>1, <4>2, Counts DEF Commands
      <3>2. CASE Head(argv) # "--bench"
        BY <1>4, <3>2 DEF ParseOption
      <3>3. QED
        BY <3>1, <3>2
    <2>3. background' \in {"auto", "dark", "light"}
      <3>1. CASE Head(argv) = "--background"
        BY <1>4, <2>1, <3>1 DEF ParseOption, Option, Accepts
      <3>2. CASE Head(argv) # "--background"
        BY <1>4, <3>2 DEF ParseOption
      <3>3. QED
        BY <3>1, <3>2
    <2>4. max_processes' \in Nat
      <3>1. CASE Head(argv) = "--max-processes"
        <4>1. argv[2] \in DOMAIN count
          BY <2>1, <3>1 DEF Option, Accepts
        <4>2. QED
          BY <1>4, <3>1, <4>1, Counts DEF ParseOption
      <3>2. CASE Head(argv) # "--max-processes"
        BY <1>4, <3>2 DEF ParseOption
      <3>3. QED
        BY <3>1, <3>2
    <2>5. UNCHANGED <<at, status>>
      BY <1>4 DEF ParseOption
    <2>6. QED
      BY <1>1, <1>2, <2>2, <2>3, <2>4, <2>5
  <1>5. CASE ParseEnd
    BY <1>1, <1>2, <1>5 DEF ParseEnd
  <1>6. CASE ParseError
    BY <1>1, <1>2, <1>6 DEF ParseError, Leave
  <1>7. QED
    BY <1>3, <1>4, <1>5, <1>6 DEF Parse

LEMMA DetectLaunches ==
    ASSUME Launched, Detect
    PROVE  Launched'
  <1> USE DEF Launched, StartupTypeOK
  <1>1. at = "cpus" /\ UNCHANGED <<command, background, max_processes, step, attached, capacity>>
    BY DEF Detect
  <1>2. CASE Leave("err") /\ UNCHANGED entries
    BY <1>1, <1>2 DEF Leave
  <1>3. ASSUME NEW t \in Topologies, at' = "resolve", UNCHANGED status,
               entries' = IF max_processes > 0 THEN max_processes ELSE default_max_processes(t.possible)
        PROVE  Launched'
    <2>1. t.possible \in Nat \ {0} /\ FLOOR \in Nat
      BY TopologiesAssumption, SizesAssumption
    <2>2. default_max_processes(t.possible) \in FLOOR..CEILING
      BY <2>1, DefaultSize
    <2>3. entries' \in Nat /\ entries' \in {0, max_processes} \cup FLOOR..CEILING
      BY <1>3, <2>1, <2>2
    <2>4. QED
      BY <1>1, <1>3, <2>3
  <1>4. QED
    BY <1>2, <1>3 DEF Detect

LEMMA NextLaunched == Hooks /\ Launched /\ [Next]_vars => Launched'
  <1> SUFFICES ASSUME Hooks, Launched, [Next]_vars PROVE Launched'
    OBVIOUS
  <1>1. CASE UNCHANGED <<startup, capacity>>
    BY <1>1 DEF startup, setup, ending, Launched, StartupTypeOK
  <1>2. CASE Child(Truetop)
    <2>0. Truetop
      BY <1>2 DEF Child
    <2> USE DEF Launched, StartupTypeOK
    <2>1. CASE Parse \/ Detect
      BY <2>1, ParseLaunches, DetectLaunches
    <2>2. CASE Ask \/ WalkStep
      BY <1>1, <2>2 DEF Ask, WalkStep, report
    <2>3. CASE Answer
      BY <2>3 DEF Answer, Resolving, ending, report
    <2>4. CASE NoOffset
      BY <2>4 DEF NoOffset, Refused, Resolving, Leave, setup, report
    <2>5. CASE Load
      BY <2>5 DEF Load, Refused, Leave, report
    <2>6. CASE attach_raw_tracepoint
      <3>1. step \in 1..4 /\ at = "attach"
        BY <2>6 DEF attach_raw_tracepoint
      <3>2. /\ UNCHANGED <<command, background, max_processes, entries, capacity>>
            /\ \/ /\ attached' = attached \cup {Tracepoints[step]}
                  /\ step' = step + 1 /\ at' = IF step = 4 THEN "creds" ELSE at
                  /\ UNCHANGED status
               \/ Refused /\ UNCHANGED <<attached, step>>
        <4>1. Len(Tracepoints) = 4
          BY DEF Tracepoints
        <4>2. QED
          BY <2>6, <4>1 DEF attach_raw_tracepoint, report
      <3>3. Tracepoints[step] \in {"sched_switch", "sched_process_exec", "sched_process_fork", "sched_process_exit"}
        BY <3>1 DEF Tracepoints
      <3>4. CASE Refused /\ UNCHANGED attached
        BY <3>1, <3>2, <3>4 DEF Refused, Leave
      <3>5. CASE attached' = attached \cup {Tracepoints[step]} /\ UNCHANGED status
                 /\ step' = step + 1 /\ at' = IF step = 4 THEN "creds" ELSE at
        <4>1. at' \in {"creds", "attach"} /\ step' \in Nat \ {0} /\ (at' = "attach" => step' \in 1..4)
          BY <3>1, <3>5
        <4>2. QED
          BY <3>1, <3>2, <3>3, <3>5, <4>1
      <3>6. QED
        BY <3>2, <3>4, <3>5
    <2>7. CASE attach_creds
      BY <2>7 DEF attach_creds, setup, report
    <2>8. CASE TakeMaps
      BY <2>8 DEF TakeMaps, Refused, Leave
    <2>9. CASE Time \/ TickBegins \/ TickEnds
      BY <2>9 DEF Time, TickBegins, TickEnds, Running, Elapse, ReadCpu, Publish
    <2>10. CASE BenchEnds \/ UiEnds
      <3>1. /\ UNCHANGED <<command, background, max_processes, entries, step, attached>>
            /\ at' = "drop" /\ status' \in {"ok", "err"}
        BY <2>10 DEF BenchEnds, UiEnds, Running, Leave
      <3>2. capacity' = 0
        BY <2>10 DEF BenchEnds, UiEnds, Gone
      <3>3. QED
        BY <3>1, <3>2
    <2>11. CASE Drop
      BY <2>11 DEF Drop, setup, report
    <2>12. QED
      BY <2>0, <2>1, <2>2, <2>3, <2>4, <2>5, <2>6, <2>7, <2>8, <2>9, <2>10, <2>11 DEF Truetop, TruetopWorks
  <1>3. CASE Works
    <2>1. CASE Build
      BY <2>1 DEF Build, Hooks, setup, ending, report, Launched, StartupTypeOK
    <2>2. QED
      BY <1>1, <1>3, <2>1 DEF Works, Dispatch, Returned, RunSuite, RunPick, FetchFixture, ListEnds,
            BenchArgument, Prepare, Engage, Restore, truetop, report
  <1>4. CASE UNCHANGED vars
    BY <1>1, <1>4 DEF vars, truetop, report
  <1>5. QED
    BY <1>2, <1>3, <1>4 DEF Next

LEMMA LaunchedHolds == Spec => []Launched
  <1>1. Init => Launched
    <2> SUFFICES ASSUME Init PROVE Launched
      OBVIOUS
    <2>1. at = "idle" /\ Ready(<<>>) /\ Fresh
      BY DEF Init
    <2>2. Ui \in Commands /\ 1 \in Nat \ {0}
      BY DEF Ui, Commands
    <2>3. QED
      BY <2>1, <2>2 DEF Ready, Fresh, Launched, StartupTypeOK
  <1>2. QED
    BY <1>1, NextLaunched, CleanHolds, PTL DEF Spec, Clean

-----------------------------------------------------------------------------
(* The report.  What the two counters, and their last snapshots, are.      *)
Tally(f) == DOMAIN f \subseteq Procs /\ f \in [DOMAIN f -> Nat]
Taken(prev) ==
    /\ Tally(prev.by_pid)
    /\ \/ prev.at = None /\ DOMAIN prev.by_pid = {}
       \/ \E t \in 0..clock : prev.at = {t}

Counters ==
    /\ clock \in 0..MaxTime
    /\ doing \in [Procs -> {"idle", "run", "wait"}]
    /\ \A f \in {blocked, waited, billed, ran} : f \in [Procs -> Nat]
    /\ Tally(CPU_NS) /\ Tally(IOWAIT_NS) /\ Tally(first)
    /\ Taken(cpu_prev) /\ Taken(io_prev)

(* What is billed and not shown yet. *)
Owed(p) ==
    IF p \in DOMAIN IOWAIT_NS \cap DOMAIN io_prev.by_pid
    THEN Less(IOWAIT_NS[p], io_prev.by_pid[p]) ELSE 0

(* Nothing is shown twice, and nothing is missed but what was dropped.     *)
Waits(p) ==
    /\ doing[p] = "wait" \/ blocked[p] = 0
    /\ billed[p] + Owed(p) + blocked[p] <= waited[p]
    /\ p \in DOMAIN IOWAIT_NS \cap DOMAIN io_prev.by_pid /\ io_prev.at = {clock} =>
          IOWAIT_NS[p] = io_prev.by_pid[p]
    /\ p \in DOMAIN first \ lost =>
          /\ p \in DOMAIN IOWAIT_NS \cap DOMAIN io_prev.by_pid
          /\ io_prev.by_pid[p] <= IOWAIT_NS[p]
          /\ first[p] + billed[p] + (IOWAIT_NS[p] - io_prev.by_pid[p]) + blocked[p] = waited[p]
    /\ p \notin DOMAIN first \cup lost =>
          /\ p \notin DOMAIN io_prev.by_pid /\ billed[p] = 0
          /\ (IF p \in DOMAIN IOWAIT_NS THEN IOWAIT_NS[p] ELSE 0) + blocked[p] = waited[p]

(* A map that is not full has lost nothing since the last read.            *)
NothingEvicted ==
    Cardinality(DOMAIN CPU_NS) < capacity =>
        \A p \in DOMAIN cpu_prev.by_pid :
            p \in DOMAIN CPU_NS /\ CPU_NS[p] = cpu_prev.by_pid[p] + ran[p]

Shares ==
    /\ tick \in {"none", "cpu"} /\ due = [cpu |-> due.cpu, io |-> due.io]
    /\ DOMAIN cpu \subseteq Procs
    /\ tick = "cpu" /\ Cardinality(DOMAIN cpu) < capacity => DOMAIN due.cpu = {} \/ due.cpu = cpu
    /\ TopIsListed

(* No counter runs ahead of the clock. *)
Sizes ==
    /\ lost \subseteq Procs
    /\ \A p \in Procs : blocked[p] <= waited[p] /\ waited[p] <= clock
    /\ \A p \in DOMAIN IOWAIT_NS : IOWAIT_NS[p] + blocked[p] <= waited[p]
    /\ \A f \in {CPU_NS, cpu_prev.by_pid, io_prev.by_pid} : \A p \in DOMAIN f : f[p] <= clock
    /\ \A s \in snapshot :
          Cardinality(s.processes) <= 2 * MAX_ROWS /\ s.tracked <= Cardinality(Procs)

(* Until the collector is there, and once it is gone, nothing is counted.  *)
Asleep ==
    at \notin {"bench", "ui"} =>
        /\ tick = "none" /\ snapshot = None
        /\ DOMAIN CPU_NS = {} /\ DOMAIN cpu_prev.by_pid = {}

(* What a step is to the report. *)
Awake == {"bench", "ui"}
Still == /\ UNCHANGED <<clock, kernel, collector, history>>
         /\ at' \notin Awake => at \notin Awake
         /\ capacity' = capacity \/ at \notin Awake
Reports == at \in Awake /\ at' = at /\ capacity' = capacity /\ (Elapse \/ ReadCpu \/ Publish)
Forgets == at' = "drop" /\ Gone

LEMMA ReportStep == Hooks /\ [Next]_vars => Still \/ Reports \/ Forgets
  <1> SUFFICES ASSUME Hooks, [Next]_vars PROVE Still \/ Reports \/ Forgets
    OBVIOUS
  <1>1. CASE UNCHANGED report /\ at' = at
    BY <1>1 DEF Still, report, kernel, collector
  <1>2. CASE Child(Truetop)
    <2>0. Truetop
      BY <1>2 DEF Child
    <2>1. CASE Parse
      <3>1. UNCHANGED report /\ at = "parse"
        BY <2>1 DEF Parse
      <3>2. QED
        BY <3>1 DEF Still, Awake, report, kernel, collector
    <2>2. CASE Detect \/ TakeMaps
      BY <2>2 DEF Detect, TakeMaps, Still, Awake, collector
    <2>3. CASE Ask \/ WalkStep
      BY <1>1, <2>3 DEF Ask, WalkStep, startup
    <2>4. CASE Answer \/ NoOffset \/ Load
      BY <2>4 DEF Answer, NoOffset, Load, Resolving, Still, Awake, report, kernel, collector
    <2>5. CASE attach_raw_tracepoint \/ attach_creds \/ Drop
      BY <2>5 DEF attach_raw_tracepoint, attach_creds, Drop, Still, Awake, report, kernel, collector
    <2>6. CASE Time
      BY <2>6 DEF Time, Running, Elapse, Reports, Awake
    <2>7. CASE TickBegins
      BY <2>7 DEF TickBegins, Running, ReadCpu, Reports, Awake
    <2>8. CASE TickEnds
      BY <2>8 DEF TickEnds, Running, Publish, Reports, Awake
    <2>9. CASE BenchEnds \/ UiEnds
      BY <2>9 DEF BenchEnds, UiEnds, Leave, Forgets
    <2>10. QED
      BY <2>0, <2>1, <2>2, <2>3, <2>4, <2>5, <2>6, <2>7, <2>8, <2>9 DEF Truetop, TruetopWorks
  <1>3. CASE Works
    <2>1. CASE Build
      BY <2>1 DEF Build, Hooks, Still, Awake, report, kernel, collector
    <2>2. QED
      BY <1>1, <1>3, <2>1 DEF Works, Dispatch, Returned, RunSuite, RunPick, FetchFixture, ListEnds,
            BenchArgument, Prepare, Engage, Restore, truetop, startup
  <1>4. CASE UNCHANGED vars
    BY <1>1, <1>4 DEF vars, truetop, startup
  <1>5. QED
    BY <1>2, <1>3, <1>4 DEF Next

-----------------------------------------------------------------------------
(* Facts of the operators. *)

(* One entry grows, or comes in; the others stay or leave.                 *)
LEMMA ChargeIs ==
    ASSUME NEW map, Tally(map), NEW p \in Procs, NEW n \in Nat, NEW new, Charge(map, p, n, new)
    PROVE  /\ Tally(new) /\ p \in DOMAIN new
           /\ new[p] = (IF p \in DOMAIN map THEN map[p] ELSE 0) + n
           /\ \A q \in DOMAIN new \ {p} : q \in DOMAIN map /\ new[q] = map[q]
  <1>1. CASE p \in DOMAIN map
    BY <1>1 DEF Charge, Tally
  <1>2. ASSUME NEW kept \in SUBSET DOMAIN map, p \notin DOMAIN map,
               new = [q \in kept \cup {p} |-> IF q = p THEN n ELSE map[q]]
        PROVE  /\ Tally(new) /\ p \in DOMAIN new
               /\ new[p] = (IF p \in DOMAIN map THEN map[p] ELSE 0) + n
               /\ \A q \in DOMAIN new \ {p} : q \in DOMAIN map /\ new[q] = map[q]
    BY <1>2 DEF Tally
  <1>3. CASE p \notin DOMAIN map
    <2>1. \E kept \in SUBSET DOMAIN map : new = [q \in kept \cup {p} |-> IF q = p THEN n ELSE map[q]]
      BY <1>3 DEF Charge
    <2>2. QED
      BY <1>2, <1>3, <2>1
  <1>4. QED
    BY <1>1, <1>3

LEMMA AtMostOne ==
    ASSUME NEW S \in SUBSET Procs, Cardinality(S) <= 1, NEW a \in S, NEW b \in S
    PROVE  a = b
  <1>1. IsFiniteSet(S) /\ Cardinality(S) \in Nat
    BY FS_Subset, FS_CardinalityType, ReportAssumption
  <1>2. Cardinality(S) # 0
    BY <1>1, FS_EmptySet
  <1>3. Cardinality(S) = 1
    BY <1>1, <1>2
  <1>4. \E x : S = {x}
    BY <1>1, <1>3, FS_Singleton
  <1>5. QED
    BY <1>4

LEMMA LessIs ==
    ASSUME NEW a \in Nat, NEW b \in Nat
    PROVE  Less(a, b) \in Nat /\ (b <= a => Less(a, b) = a - b) /\ (a <= b => Less(a, b) = 0)
  BY DEF Less

(* A share is exact: the interval gives back what was billed in it.        *)
LEMMA SharesAreExact ==
    ASSUME NEW now \in Nat, NEW was \in Nat, NEW elapsed \in 1..6
    PROVE  (Percent(now, was, elapsed) * elapsed) \div 1200 = Less(now, was)
  <1> DEFINE n == Less(now, was)
  <1>1. n \in Nat
    BY LessIs
  <1>2. Percent(now, was, elapsed) = (1200 * n) \div elapsed
    BY DEF Percent
  <1> SUFFICES (Percent(now, was, elapsed) * elapsed) \div 1200 = n
    BY DEF n
  <1> HIDE DEF n
  <1>3. (1200 * n) \div 1200 = n
    BY <1>1
  <1>4. CASE elapsed = 1
    <2>1. (1200 * n) \div 1 = 1200 * n /\ (1200 * n) * 1 = 1200 * n
      BY <1>1
    <2>2. Percent(now, was, elapsed) = 1200 * n
      BY <1>2, <1>4, <2>1
    <2>3. Percent(now, was, elapsed) * elapsed = 1200 * n
      BY <1>4, <2>1, <2>2
    <2>4. QED
      BY <1>3, <2>3
  <1>5. CASE elapsed = 2
    <2>1. (1200 * n) \div 2 = 600 * n /\ (600 * n) * 2 = 1200 * n
      BY <1>1
    <2>2. Percent(now, was, elapsed) = 600 * n
      BY <1>2, <1>5, <2>1
    <2>3. Percent(now, was, elapsed) * elapsed = 1200 * n
      BY <1>5, <2>1, <2>2
    <2>4. QED
      BY <1>3, <2>3
  <1>6. CASE elapsed = 3
    <2>1. (1200 * n) \div 3 = 400 * n /\ (400 * n) * 3 = 1200 * n
      BY <1>1
    <2>2. Percent(now, was, elapsed) = 400 * n
      BY <1>2, <1>6, <2>1
    <2>3. Percent(now, was, elapsed) * elapsed = 1200 * n
      BY <1>6, <2>1, <2>2
    <2>4. QED
      BY <1>3, <2>3
  <1>7. CASE elapsed = 4
    <2>1. (1200 * n) \div 4 = 300 * n /\ (300 * n) * 4 = 1200 * n
      BY <1>1
    <2>2. Percent(now, was, elapsed) = 300 * n
      BY <1>2, <1>7, <2>1
    <2>3. Percent(now, was, elapsed) * elapsed = 1200 * n
      BY <1>7, <2>1, <2>2
    <2>4. QED
      BY <1>3, <2>3
  <1>8. CASE elapsed = 5
    <2>1. (1200 * n) \div 5 = 240 * n /\ (240 * n) * 5 = 1200 * n
      BY <1>1
    <2>2. Percent(now, was, elapsed) = 240 * n
      BY <1>2, <1>8, <2>1
    <2>3. Percent(now, was, elapsed) * elapsed = 1200 * n
      BY <1>8, <2>1, <2>2
    <2>4. QED
      BY <1>3, <2>3
  <1>9. CASE elapsed = 6
    <2>1. (1200 * n) \div 6 = 200 * n /\ (200 * n) * 6 = 1200 * n
      BY <1>1
    <2>2. Percent(now, was, elapsed) = 200 * n
      BY <1>2, <1>9, <2>1
    <2>3. Percent(now, was, elapsed) * elapsed = 1200 * n
      BY <1>9, <2>1, <2>2
    <2>4. QED
      BY <1>3, <2>3
  <1>10. elapsed = 1 \/ elapsed = 2 \/ elapsed = 3 \/ elapsed = 4 \/ elapsed = 5 \/ elapsed = 6
    OBVIOUS
  <1>11. QED
    BY <1>4, <1>5, <1>6, <1>7, <1>8, <1>9, <1>10, Zenon

-----------------------------------------------------------------------------
(* A unit of time, as it is to one process: its wait grows or ends.        *)
Woke(p) == doing[p] = "wait" /\ doing'[p] # "wait"
Ended(p) == IF Woke(p) THEN blocked[p] ELSE 0
Unit(p) == IF doing'[p] = "wait" THEN 1 ELSE 0
Had(p) == IF p \in DOMAIN IOWAIT_NS THEN IOWAIT_NS[p] ELSE 0

LEMMA ElapsedTypes ==
    ASSUME Counters, Elapse
    PROVE  Counters' /\ clock' = clock + 1
  <1> USE DEF Counters
  <1> DEFINE runs == {p \in Procs : doing'[p] = "run"}
             waits == {p \in Procs : doing'[p] = "wait"}
             woken == {p \in Procs \ waits : doing[p] = "wait"}
  <1>1. /\ clock' = clock + 1 /\ clock < MaxTime
        /\ doing' \in [Procs -> {"idle", "run", "wait"}]
        /\ blocked' = [p \in Procs |-> IF p \in waits THEN blocked[p] + 1 ELSE 0]
        /\ waited' = [p \in Procs |-> IF p \in waits THEN waited[p] + 1 ELSE waited[p]]
        /\ ran' = [p \in Procs |-> IF p \in runs THEN ran[p] + 1 ELSE ran[p]]
        /\ UNCHANGED <<billed, first, cpu_prev, io_prev>>
    BY DEF Elapse, collector
  <1>2. CPU_NS' = CPU_NS \/ \E p \in Procs : Charge(CPU_NS, p, 1, CPU_NS')
    BY DEF Elapse
  <1>3. IOWAIT_NS' = IOWAIT_NS \/ \E p \in Procs : Charge(IOWAIT_NS, p, blocked[p], IOWAIT_NS')
    BY DEF Elapse
  <1>4. Tally(CPU_NS')
    BY <1>2, ChargeIs
  <1>5. Tally(IOWAIT_NS')
    <2>1. \A p \in Procs : blocked[p] \in Nat
      OBVIOUS
    <2>2. QED
      BY <1>3, <2>1, ChargeIs
  <1>6. clock' \in 0..MaxTime
    BY <1>1, ReportAssumption
  <1>7. blocked' \in [Procs -> Nat] /\ waited' \in [Procs -> Nat] /\ ran' \in [Procs -> Nat]
    BY <1>1
  <1>8. \A prev : Taken(prev) => (\A t \in 0..clock : t \in 0..clock')
    BY <1>1
  <1>9. Taken(cpu_prev)' /\ Taken(io_prev)'
    BY <1>1, <1>8 DEF Taken
  <1>10. Tally(first)'
    BY <1>1 DEF Tally
  <1>11. QED
    BY <1>1, <1>4, <1>5, <1>6, <1>7, <1>9, <1>10 DEF Tally

LEMMA Elapsed ==
    ASSUME Counters, Elapse, NEW p \in Procs, doing[p] = "wait" \/ blocked[p] = 0
    PROVE  /\ blocked'[p] + Ended(p) = blocked[p] + Unit(p)
           /\ waited'[p] = waited[p] + Unit(p)
           /\ doing'[p] = "wait" \/ blocked'[p] = 0
           /\ p \in DOMAIN IOWAIT_NS' => IOWAIT_NS'[p] = Had(p) + Ended(p)
           /\ p \in DOMAIN IOWAIT_NS' => p \in DOMAIN IOWAIT_NS \/ Woke(p)
           /\ p \notin DOMAIN IOWAIT_NS' => ~Woke(p)
  <1> USE DEF Counters
  <1> DEFINE waits == {q \in Procs : doing'[q] = "wait"}
             woken == {q \in Procs \ waits : doing[q] = "wait"}
             turned == {q \in Procs : doing'[q] # doing[q]}
  <1>1. /\ blocked' = [q \in Procs |-> IF q \in waits THEN blocked[q] + 1 ELSE 0]
        /\ waited' = [q \in Procs |-> IF q \in waits THEN waited[q] + 1 ELSE waited[q]]
        /\ Cardinality(turned) <= 1
    BY DEF Elapse
  <1>2. woken = {} => IOWAIT_NS' = IOWAIT_NS
    BY DEF Elapse
  <1>3. woken # {} => \E q \in woken : Charge(IOWAIT_NS, q, blocked[q], IOWAIT_NS')
    BY DEF Elapse
  <1>4. blocked[p] \in Nat /\ waited[p] \in Nat /\ Had(p) \in Nat
    BY DEF Had, Tally
  <1>5. blocked'[p] + Ended(p) = blocked[p] + Unit(p) /\ waited'[p] = waited[p] + Unit(p)
    BY <1>1, <1>4 DEF Ended, Unit, Woke
  <1>6. doing'[p] = "wait" \/ blocked'[p] = 0
    BY <1>1
  <1>7. Woke(p) <=> p \in woken
    BY DEF Woke
  <1>8. CASE woken = {}
    BY <1>2, <1>4, <1>5, <1>6, <1>7, <1>8 DEF Ended, Had
  <1>9. CASE woken # {}
    <2>1. PICK q \in woken : Charge(IOWAIT_NS, q, blocked[q], IOWAIT_NS')
      BY <1>3, <1>9
    <2>2. blocked[q] \in Nat /\ q \in Procs
      BY <2>1
    <2>3. /\ q \in DOMAIN IOWAIT_NS'
          /\ IOWAIT_NS'[q] = Had(q) + blocked[q]
          /\ \A o \in DOMAIN IOWAIT_NS' \ {q} : o \in DOMAIN IOWAIT_NS /\ IOWAIT_NS'[o] = IOWAIT_NS[o]
      BY <2>1, <2>2, ChargeIs DEF Had
    <2>4. p \in woken => p = q
      <3>1. turned \in SUBSET Procs /\ woken \subseteq turned
        OBVIOUS
      <3>2. QED
        BY <1>1, <2>1, <3>1, AtMostOne
    <2>5. CASE p = q
      BY <1>5, <1>6, <1>7, <2>1, <2>3, <2>5 DEF Ended
    <2>6. CASE p # q
      <3>1. ~Woke(p) /\ Ended(p) = 0
        BY <1>7, <2>4, <2>6 DEF Ended
      <3>2. p \in DOMAIN IOWAIT_NS' => p \in DOMAIN IOWAIT_NS /\ IOWAIT_NS'[p] = Had(p) + 0
        BY <1>4, <2>3, <2>6 DEF Had
      <3>3. QED
        BY <1>5, <1>6, <3>1, <3>2
    <2>7. QED
      BY <2>5, <2>6
  <1>10. QED
    BY <1>8, <1>9

LEMMA ElapsedWaits ==
    ASSUME Counters, Elapse, NEW p \in Procs, Waits(p)
    PROVE  Waits(p)'
  <1> DEFINE io == p \in DOMAIN IOWAIT_NS
             io_ == p \in DOMAIN IOWAIT_NS'
             seen == p \in DOMAIN io_prev.by_pid
             was == io_prev.by_pid[p]
  <1>1. /\ blocked'[p] + Ended(p) = blocked[p] + Unit(p)
        /\ waited'[p] = waited[p] + Unit(p)
        /\ doing'[p] = "wait" \/ blocked'[p] = 0
        /\ io_ => IOWAIT_NS'[p] = Had(p) + Ended(p)
        /\ io_ => io \/ Woke(p)
        /\ ~io_ => ~Woke(p)
    BY Elapsed DEF Waits
  <1>2. UNCHANGED <<billed, first, io_prev>> /\ clock' = clock + 1
        /\ lost' = lost \cup (DOMAIN IOWAIT_NS \ DOMAIN IOWAIT_NS')
    BY DEF Elapse, collector
  <1>3. /\ {blocked[p], waited[p], billed[p], Had(p), Ended(p), Unit(p), blocked'[p], waited'[p]} \subseteq Nat
        /\ seen => was \in Nat
        /\ p \in DOMAIN first => first[p] \in Nat
    <2>1. Counters'
      BY ElapsedTypes
    <2>2. QED
      BY <2>1 DEF Counters, Taken, Tally, Had, Ended, Unit
  <1>4. clock' # clock /\ (io_prev'.at # {clock'})
    BY <1>2 DEF Counters, Taken, None
  <1>5. billed'[p] + Owed(p)' + blocked'[p] <= waited'[p]
    <2>1. CASE io /\ io_ /\ seen
      <3>1. Owed(p) = Less(Had(p), was) /\ Owed(p)' = Less(Had(p) + Ended(p), was)
        BY <1>1, <1>2, <2>1 DEF Owed, Had
      <3>2. QED
        BY <1>1, <1>2, <1>3, <2>1, <3>1 DEF Waits, Less
    <2>2. CASE ~io /\ io_ /\ seen
      <3>1. Owed(p) = 0 /\ Owed(p)' = Less(Ended(p), was)
        BY <1>1, <1>2, <1>3, <2>2 DEF Owed, Had
      <3>2. QED
        BY <1>1, <1>2, <1>3, <2>2, <3>1 DEF Waits, Less
    <2>3. CASE ~io_ \/ ~seen
      <3>1. Owed(p)' = 0 /\ Owed(p) \in Nat
        BY <1>2, <1>3, <2>3 DEF Owed, Less, Had
      <3>2. QED
        BY <1>1, <1>2, <1>3, <3>1 DEF Waits
    <2>4. QED
      BY <2>1, <2>2, <2>3
  <1>6. ASSUME p \in DOMAIN first \ lost'
        PROVE  /\ io_ /\ seen /\ was <= IOWAIT_NS'[p]
               /\ first[p] + billed[p] + (IOWAIT_NS'[p] - was) + blocked'[p] = waited'[p]
    <2>1. io_ /\ io /\ seen /\ Had(p) = IOWAIT_NS[p] /\ was <= Had(p)
          /\ first[p] + billed[p] + (Had(p) - was) + blocked[p] = waited[p]
      BY <1>2, <1>6 DEF Waits, Had
    <2>2. io_ /\ seen /\ IOWAIT_NS'[p] = Had(p) + Ended(p)
      BY <1>1, <2>1
    <2>3. first[p] \in Nat /\ was \in Nat
      BY <1>3, <1>6, <2>1
    <2>4. was <= Had(p) + Ended(p)
      BY <1>3, <2>1, <2>3
    <2>5. first[p] + billed[p] + ((Had(p) + Ended(p)) - was) + blocked'[p] = waited'[p]
      BY <1>1, <1>3, <2>1, <2>3
    <2>6. QED
      BY <2>2, <2>4, <2>5
  <1>7. ASSUME p \notin DOMAIN first \cup lost'
        PROVE  ~seen /\ billed[p] = 0 /\ (IF io_ THEN IOWAIT_NS'[p] ELSE 0) + blocked'[p] = waited'[p]
    <2>1. ~seen /\ billed[p] = 0 /\ Had(p) + blocked[p] = waited[p] /\ (io => io_)
      BY <1>2, <1>7 DEF Waits, Had
    <2>2. (IF io_ THEN IOWAIT_NS'[p] ELSE 0) = Had(p) + Ended(p)
      BY <1>1, <2>1 DEF Had, Ended
    <2>3. QED
      BY <1>1, <1>3, <2>1, <2>2
  <1>8. QED
    BY <1>1, <1>2, <1>4, <1>5, <1>6, <1>7 DEF Waits

-----------------------------------------------------------------------------
(* The interval is none, or within the reach of the shares. *)
LEMMA Interval ==
    ASSUME Counters, NEW prev, Taken(prev), NEW map, NEW keys
    PROVE  LET e == elapsed_ns_since(Read(map, keys), prev) IN
           /\ e \in 0..6
           /\ e = 0 => DOMAIN prev.by_pid = {} \/ prev.at = {clock}
           /\ \A t \in prev.at : t \in 0..clock /\ e = clock - t
  <1> DEFINE e == elapsed_ns_since(Read(map, keys), prev)
  <1>0. value(Read(map, keys).at) = clock
    BY Value DEF Read, Some
  <1>1. CASE prev.at = None /\ DOMAIN prev.by_pid = {}
    BY <1>1 DEF elapsed_ns_since, None
  <1>2. ASSUME NEW t \in 0..clock, prev.at = {t}
        PROVE  e \in 0..6 /\ (e = 0 => t = clock) /\ e = clock - t
    <2>1. value(prev.at) = t /\ prev.at # None
      BY <1>2, Value DEF None
    <2>2. e = clock - t
      BY <1>0, <2>1 DEF elapsed_ns_since
    <2>3. clock \in 0..6
      BY ReportAssumption DEF Counters
    <2>4. QED
      BY <2>2, <2>3
  <1>3. QED
    BY <1>1, <1>2 DEF Taken

(* What a tick shows is what was billed since the last one. *)
LEMMA Published ==
    ASSUME Counters, \A p \in Procs : Waits(p), Publish
    PROVE  \E keys \in SUBSET DOMAIN IOWAIT_NS :
              /\ io_prev' = Read(IOWAIT_NS, keys)
              /\ billed' = [p \in Procs |-> billed[p] + IF p \in keys THEN Owed(p) ELSE 0]
              /\ first' = [p \in keys \cup DOMAIN first |-> IF p \in DOMAIN first THEN first[p] ELSE IOWAIT_NS[p]]
              /\ lost' = lost \cup (DOMAIN IOWAIT_NS \ keys)
  <1> DEFINE now(keys) == Read(IOWAIT_NS, keys)
             elapsed(keys) == elapsed_ns_since(now(keys), io_prev)
             io(keys) == IoDeltas(now(keys))
  <1>1. PICK keys \in SUBSET DOMAIN IOWAIT_NS :
          /\ io_prev' = now(keys)
          /\ billed' = [p \in Procs |-> IF p \in DOMAIN io(keys) THEN billed[p] + (io(keys)[p] * elapsed(keys)) \div 1200
                                        ELSE billed[p]]
          /\ first' = [p \in keys \cup DOMAIN first |-> IF p \in DOMAIN first THEN first[p] ELSE IOWAIT_NS[p]]
          /\ lost' = lost \cup (DOMAIN IOWAIT_NS \ keys)
    BY DEF Publish
  <1> DEFINE e == elapsed(keys)
  <1>2. e \in 0..6 /\ (e = 0 => DOMAIN io_prev.by_pid = {} \/ io_prev.at = {clock})
    BY Interval DEF Counters
  <1>3. now(keys).by_pid = [p \in keys |-> IOWAIT_NS[p]]
    BY DEF Read, Restrict
  <1>4. io(keys) = [p \in IF e > 0 THEN keys \cap DOMAIN io_prev.by_pid ELSE {} |->
                       Percent(IOWAIT_NS[p], io_prev.by_pid[p], e)]
    BY <1>3 DEF IoDeltas
  <1>5. ASSUME NEW p \in Procs
        PROVE  (IF p \in DOMAIN io(keys) THEN billed[p] + (io(keys)[p] * e) \div 1200 ELSE billed[p])
                 = billed[p] + IF p \in keys THEN Owed(p) ELSE 0
    <2>0. billed[p] \in Nat
      BY DEF Counters
    <2>1. CASE p \in keys /\ p \in DOMAIN io_prev.by_pid /\ e > 0
      <3>1. IOWAIT_NS[p] \in Nat /\ io_prev.by_pid[p] \in Nat /\ e \in 1..6
        BY <1>2, <2>1 DEF Counters, Tally, Taken
      <3>2. p \in DOMAIN io(keys) /\ io(keys)[p] = Percent(IOWAIT_NS[p], io_prev.by_pid[p], e)
        BY <1>4, <2>1
      <3>3. (io(keys)[p] * e) \div 1200 = Less(IOWAIT_NS[p], io_prev.by_pid[p])
        BY <3>1, <3>2, SharesAreExact
      <3>4. Owed(p) = Less(IOWAIT_NS[p], io_prev.by_pid[p])
        BY <2>1 DEF Owed
      <3>5. QED
        BY <2>1, <3>2, <3>3, <3>4
    <2>2. CASE p \in keys /\ p \in DOMAIN io_prev.by_pid /\ e = 0
      <3>1. IOWAIT_NS[p] \in Nat /\ io_prev.by_pid[p] \in Nat /\ IOWAIT_NS[p] = io_prev.by_pid[p]
        BY <1>2, <2>2 DEF Counters, Tally, Taken, Waits
      <3>2. Owed(p) = 0
        BY <3>1, LessIs DEF Owed
      <3>3. p \notin DOMAIN io(keys)
        BY <1>4, <2>2
      <3>4. QED
        BY <2>0, <3>2, <3>3
    <2>3. CASE p \notin keys \/ p \notin DOMAIN io_prev.by_pid
      <3>1. p \notin DOMAIN io(keys) /\ (IF p \in keys THEN Owed(p) ELSE 0) = 0
        BY <1>2, <1>4, <2>3 DEF Owed
      <3>2. QED
        BY <2>0, <3>1
    <2>4. QED
      BY <1>2, <2>1, <2>2, <2>3
  <1>6. billed' = [p \in Procs |-> billed[p] + IF p \in keys THEN Owed(p) ELSE 0]
    BY <1>1, <1>5
  <1>7. QED
    BY <1>1, <1>6

LEMMA PublishedWaits ==
    ASSUME Counters, \A p \in Procs : Waits(p), Publish
    PROVE  Counters' /\ \A p \in Procs : Waits(p)'
  <1>1. PICK keys \in SUBSET DOMAIN IOWAIT_NS :
          /\ io_prev' = Read(IOWAIT_NS, keys)
          /\ billed' = [p \in Procs |-> billed[p] + IF p \in keys THEN Owed(p) ELSE 0]
          /\ first' = [p \in keys \cup DOMAIN first |-> IF p \in DOMAIN first THEN first[p] ELSE IOWAIT_NS[p]]
          /\ lost' = lost \cup (DOMAIN IOWAIT_NS \ keys)
    BY Published
  <1>2. UNCHANGED <<clock, doing, blocked, CPU_NS, IOWAIT_NS, cpu_prev, waited, ran>>
    BY DEF Publish, kernel
  <1>3. io_prev'.at = {clock} /\ io_prev'.by_pid = [p \in keys |-> IOWAIT_NS[p]]
    BY <1>1 DEF Read, Restrict, Some
  <1>4. \A p \in Procs : Owed(p) \in Nat /\ billed[p] \in Nat
    BY LessIs DEF Counters, Taken, Tally, Owed
  <1>5. Counters'
    <2>1. billed' \in [Procs -> Nat]
      BY <1>1, <1>4
    <2>2. Tally(first)' /\ Tally(io_prev'.by_pid)
      BY <1>1, <1>3 DEF Counters, Tally
    <2>3. Taken(io_prev)'
      BY <1>2, <1>3, <2>2 DEF Taken, Counters
    <2>4. QED
      BY <1>2, <2>1, <2>2, <2>3 DEF Counters, Tally, Taken
  <1>6. ASSUME NEW p \in Procs
        PROVE  Waits(p)'
    <2>0. /\ blocked[p] \in Nat /\ waited[p] \in Nat
          /\ p \in DOMAIN IOWAIT_NS => IOWAIT_NS[p] \in Nat
          /\ p \in DOMAIN io_prev.by_pid => io_prev.by_pid[p] \in Nat
          /\ p \in DOMAIN first => first[p] \in Nat
      BY DEF Counters, Taken, Tally
    <2>1. CASE p \in keys
      <3>1. /\ p \in DOMAIN IOWAIT_NS /\ p \in DOMAIN io_prev'.by_pid /\ io_prev'.by_pid[p] = IOWAIT_NS[p]
            /\ p \in DOMAIN first' /\ billed'[p] = billed[p] + Owed(p)
            /\ p \in lost' <=> p \in lost
        BY <1>1, <1>3, <2>1
      <3>2. Owed(p)' = 0
        BY <1>2, <2>0, <3>1, LessIs DEF Owed
      <3>3. ASSUME p \notin lost
            PROVE  first'[p] + billed'[p] + (IOWAIT_NS[p] - io_prev'.by_pid[p]) + blocked[p] = waited[p]
        <4>1. CASE p \in DOMAIN first
          <5>1. /\ io_prev.by_pid[p] <= IOWAIT_NS[p] /\ p \in DOMAIN io_prev.by_pid
                /\ first[p] + billed[p] + (IOWAIT_NS[p] - io_prev.by_pid[p]) + blocked[p] = waited[p]
            BY <3>3, <4>1 DEF Waits
          <5>2. Owed(p) = IOWAIT_NS[p] - io_prev.by_pid[p] /\ first'[p] = first[p]
            BY <1>1, <2>0, <2>1, <3>1, <4>1, <5>1, LessIs DEF Owed
          <5>3. QED
            BY <1>4, <2>0, <3>1, <4>1, <5>1, <5>2
        <4>2. CASE p \notin DOMAIN first
          <5>1. p \notin DOMAIN io_prev.by_pid /\ billed[p] = 0 /\ IOWAIT_NS[p] + blocked[p] = waited[p]
            BY <3>1, <3>3, <4>2 DEF Waits
          <5>2. Owed(p) = 0 /\ first'[p] = IOWAIT_NS[p]
            BY <1>1, <2>1, <4>2, <5>1 DEF Owed
          <5>3. QED
            BY <2>0, <3>1, <5>1, <5>2
        <4>3. QED
          BY <4>1, <4>2
      <3>4. billed'[p] + Owed(p)' + blocked[p] <= waited[p]
        BY <1>4, <2>0, <3>1, <3>2 DEF Waits
      <3>5. doing[p] = "wait" \/ blocked[p] = 0
        BY DEF Waits
      <3>6. IOWAIT_NS[p] \in Nat
        BY <2>0, <3>1
      <3>7. QED
        BY <1>2, <3>1, <3>3, <3>4, <3>5, <3>6 DEF Waits
    <2>2. CASE p \notin keys
      <3>1. /\ p \notin DOMAIN io_prev'.by_pid /\ billed'[p] = billed[p]
            /\ p \in DOMAIN first' <=> p \in DOMAIN first
            /\ p \in lost' <=> p \in lost \/ p \in DOMAIN IOWAIT_NS
        BY <1>1, <1>3, <1>4, <2>2
      <3>2. p \in DOMAIN first => p \in lost'
        BY <3>1 DEF Waits
      <3>3. Owed(p)' = 0
        BY <3>1 DEF Owed
      <3>4. billed'[p] + Owed(p)' + blocked[p] <= waited[p]
        BY <1>4, <2>0, <3>1, <3>3 DEF Waits
      <3>5. QED
        BY <1>2, <3>1, <3>2, <3>4 DEF Waits
    <2>3. QED
      BY <2>1, <2>2
  <1>7. QED
    BY <1>5, <1>6

(* The read of the CPU counters leaves what is known of the waits alone.   *)
LEMMA ReadWaits ==
    ASSUME Counters, \A p \in Procs : Waits(p), ReadCpu
    PROVE  Counters' /\ \A p \in Procs : Waits(p)'
  <1>1. UNCHANGED <<clock, kernel, io_prev, waited, billed, first, lost>> /\ ran' = [p \in Procs |-> 0]
    BY DEF ReadCpu
  <1>2. PICK keys \in SUBSET DOMAIN CPU_NS : cpu_prev' = Read(CPU_NS, keys)
    BY DEF ReadCpu
  <1>3. cpu_prev'.at = {clock} /\ cpu_prev'.by_pid = [p \in keys |-> CPU_NS[p]]
    BY <1>2 DEF Read, Restrict, Some
  <1>4. Tally(cpu_prev'.by_pid) /\ Taken(cpu_prev)'
    BY <1>1, <1>3 DEF Counters, Tally, Taken
  <1>5. Counters'
    BY <1>1, <1>4 DEF Counters, kernel, Taken, Tally
  <1>6. \A p \in Procs : Waits(p)'
    BY <1>1 DEF kernel, Waits, Owed
  <1>7. QED
    BY <1>5, <1>6

LEMMA StillWaits ==
    ASSUME Counters, \A p \in Procs : Waits(p), Still
    PROVE  Counters' /\ \A p \in Procs : Waits(p)'
  BY DEF Still, kernel, collector, history, Counters, Tally, Taken, Waits, Owed

LEMMA GoneIsFresh == Gone => Fresh'
  BY DEF Gone, Fresh

LEMMA FreshWaits == Fresh => Counters /\ \A p \in Procs : Waits(p)
  <1> SUFFICES ASSUME Fresh PROVE Counters /\ \A p \in Procs : Waits(p)
    OBVIOUS
  <1>1. /\ clock = 0 /\ 0 \in 0..MaxTime
        /\ doing = [p \in Procs |-> "idle"] /\ blocked = [p \in Procs |-> 0]
        /\ waited = [p \in Procs |-> 0] /\ billed = [p \in Procs |-> 0] /\ ran = [p \in Procs |-> 0]
        /\ lost = {}
        /\ CPU_NS = Empty /\ IOWAIT_NS = Empty /\ first = Empty
        /\ cpu_prev = Default /\ io_prev = Default
    BY ReportAssumption DEF Fresh
  <1>2. DOMAIN Empty = {} /\ Tally(Empty)
    BY DEF Empty, Tally
  <1>3. Default.at = None /\ Default.by_pid = Empty
    BY DEF Default
  <1>4. Taken(cpu_prev) /\ Taken(io_prev)
    BY <1>1, <1>2, <1>3 DEF Taken
  <1>5. Counters
    BY <1>1, <1>2, <1>4 DEF Counters
  <1>6. ASSUME NEW p \in Procs PROVE Waits(p)
    <2>1. p \notin DOMAIN first /\ p \notin DOMAIN io_prev.by_pid /\ p \notin DOMAIN IOWAIT_NS
      BY <1>1, <1>2, <1>3
    <2>2. Owed(p) = 0 /\ billed[p] = 0 /\ blocked[p] = 0 /\ waited[p] = 0
      BY <1>1, <2>1 DEF Owed
    <2>3. QED
      BY <2>1, <2>2 DEF Waits
  <1>7. QED
    BY <1>5, <1>6

-----------------------------------------------------------------------------
Accounted == Counters /\ \A p \in Procs : Waits(p)

LEMMA NextAccounted == Hooks /\ Accounted /\ [Next]_vars => Accounted'
  <1> SUFFICES ASSUME Hooks, Accounted, [Next]_vars PROVE Accounted'
    OBVIOUS
  <1> USE DEF Accounted
  <1>1. CASE Still
    BY <1>1, StillWaits
  <1>2. CASE Reports
    <2>1. CASE Elapse
      BY <2>1, ElapsedTypes, ElapsedWaits
    <2>2. CASE ReadCpu
      BY <2>2, ReadWaits
    <2>3. CASE Publish
      BY <2>3, PublishedWaits
    <2>4. QED
      BY <1>2, <2>1, <2>2, <2>3 DEF Reports
  <1>3. CASE Forgets
    <2>1. Fresh'
      BY <1>3, GoneIsFresh DEF Forgets
    <2>2. (Fresh => Accounted)'
      BY FreshWaits, PTL
    <2>3. QED
      BY <2>1, <2>2
  <1>4. QED
    BY <1>1, <1>2, <1>3, ReportStep

LEMMA AccountedHolds == Spec => []Accounted
  <1>1. Init => Accounted
    BY FreshWaits DEF Init, Accounted
  <1>2. QED
    BY <1>1, NextAccounted, InitClean, CleanHolds, PTL DEF Spec, Clean

(* A wait is shown once, whatever ticks it spans: for any processes, any   *)
(* interleaving of time with the two halves of a tick, any interval within *)
(* the bound, any eviction and any read cut short, what was shown of a     *)
(* process is never more than it waited, and where nothing was dropped it  *)
(* is all of it that is billed.                                            *)
THEOREM WaitsShownOnce == Spec => []WaitsAreShownOnce
  <1>1. Accounted => WaitsAreShownOnce
    <2> SUFFICES ASSUME Accounted, NEW p \in Procs
                 PROVE  /\ billed[p] <= waited[p]
                        /\ p \in DOMAIN first \ lost =>
                              first[p] + billed[p] + (IOWAIT_NS[p] - io_prev.by_pid[p]) + blocked[p] = waited[p]
      BY DEF WaitsAreShownOnce
    <2>1. billed[p] \in Nat /\ blocked[p] \in Nat /\ waited[p] \in Nat /\ Owed(p) \in Nat
      BY LessIs DEF Accounted, Counters, Taken, Tally, Owed
    <2>2. Waits(p)
      BY DEF Accounted
    <2>3. billed[p] <= waited[p]
      BY <2>1, <2>2 DEF Waits
    <2>4. QED
      BY <2>2, <2>3 DEF Waits
  <1>2. QED
    BY <1>1, AccountedHolds, PTL

-----------------------------------------------------------------------------
(* The ranking. *)
LEMMA MinOfTwo ==
    ASSUME NEW a \in Nat, NEW b \in Nat
    PROVE  Min({a, b}) \in {a, b} /\ Min({a, b}) <= a /\ Min({a, b}) <= b
  <1>1. \E x \in {a, b} : \A y \in {a, b} : x =< y
    <2>1. CASE a <= b
      BY <2>1
    <2>2. CASE b <= a
      BY <2>2
    <2>3. QED
      BY <2>1, <2>2
  <1>2. Min({a, b}) \in {a, b} /\ \A y \in {a, b} : Min({a, b}) =< y
    BY <1>1 DEF Min
  <1>3. QED
    BY <1>2

LEMMA TopSize ==
    ASSUME NEW values, DOMAIN values \subseteq Procs, NEW s \in top_pids(values)
    PROVE  /\ s \subseteq DOMAIN values /\ IsFiniteSet(s)
           /\ Cardinality(s) \in Nat /\ Cardinality(s) <= MAX_ROWS
           /\ Cardinality(s) # MAX_ROWS => s = DOMAIN values
  <1>1. s \subseteq DOMAIN values /\ Cardinality(s) = Min({MAX_ROWS, Cardinality(DOMAIN values)})
    BY DEF top_pids
  <1>2. IsFiniteSet(DOMAIN values)
    BY FS_Subset, ReportAssumption
  <1>3. IsFiniteSet(s) /\ (Cardinality(DOMAIN values) = Cardinality(s) => DOMAIN values = s)
    BY <1>1, <1>2, FS_Subset
  <1>4. Cardinality(DOMAIN values) \in Nat /\ Cardinality(s) \in Nat
    BY <1>2, <1>3, FS_CardinalityType
  <1>5. MAX_ROWS \in Nat
    BY ReportAssumption
  <1>6. Cardinality(s) \in {MAX_ROWS, Cardinality(DOMAIN values)} /\ Cardinality(s) <= MAX_ROWS
    BY <1>1, <1>4, <1>5, MinOfTwo
  <1>7. QED
    BY <1>1, <1>3, <1>4, <1>6

(* Fewer than MAX_ROWS others do as well as a leader, so no cut leaves it  *)
(* out, whichever way the ties fall.                                       *)
LEMMA LeaderIsTop ==
    ASSUME NEW values, DOMAIN values \subseteq Procs, NEW s \in top_pids(values),
           NEW p \in DOMAIN values, Leads(p, values)
    PROVE  p \in s
  <1> SUFFICES ASSUME p \notin s PROVE FALSE
    OBVIOUS
  <1> DEFINE better == {q \in DOMAIN values \ {p} : values[q] >= values[p]}
  <1>1. s \subseteq better
    BY DEF top_pids
  <1>2. Cardinality(better) < MAX_ROWS
    BY DEF Leads
  <1>3. IsFiniteSet(better)
    <2>1. better \in SUBSET Procs
      OBVIOUS
    <2>2. QED
      BY <2>1, FS_Subset, ReportAssumption
  <1> HIDE DEF better
  <1>4. Cardinality(s) <= Cardinality(better) /\ Cardinality(better) \in Nat
    BY <1>1, <1>3, FS_Subset, FS_CardinalityType
  <1>5. Cardinality(s) \in Nat /\ MAX_ROWS \in Nat
    BY TopSize, ReportAssumption
  <1>6. Cardinality(s) # MAX_ROWS
    BY <1>2, <1>4, <1>5
  <1>7. QED
    BY <1>6, TopSize

(* An insertion that leaves room evicted nothing. *)
LEMMA ChargeSize ==
    ASSUME NEW map, Tally(map), NEW p \in Procs, NEW n, NEW new, Charge(map, p, n, new),
           Cardinality(DOMAIN new) < capacity
    PROVE  Cardinality(DOMAIN map) < capacity /\ DOMAIN map \subseteq DOMAIN new
  <1>1. CASE p \in DOMAIN map
    BY <1>1 DEF Charge
  <1>2. CASE p \notin DOMAIN map /\ Cardinality(DOMAIN map) < capacity
    BY <1>2 DEF Charge
  <1>3. CASE p \notin DOMAIN map /\ ~(Cardinality(DOMAIN map) < capacity)
    <2>1. PICK victim \in DOMAIN map :
            new = [q \in (DOMAIN map \ {victim}) \cup {p} |-> IF q = p THEN n ELSE map[q]]
      BY <1>3 DEF Charge
    <2>2. DOMAIN new = (DOMAIN map \ {victim}) \cup {p}
      BY <2>1
    <2>3. IsFiniteSet(DOMAIN map)
      BY FS_Subset, ReportAssumption DEF Tally
    <2>4. IsFiniteSet(DOMAIN map \ {victim})
          /\ Cardinality(DOMAIN map \ {victim}) = Cardinality(DOMAIN map) - 1
      BY <2>3, FS_RemoveElement
    <2>5. Cardinality((DOMAIN map \ {victim}) \cup {p}) = Cardinality(DOMAIN map \ {victim}) + 1
      BY <1>3, <2>4, FS_AddElement
    <2>6. Cardinality(DOMAIN map) \in Nat
      BY <2>3, FS_CardinalityType
    <2>7. Cardinality(DOMAIN new) = Cardinality(DOMAIN map)
      BY <2>2, <2>4, <2>5, <2>6
    <2>8. QED
      BY <1>3, <2>7
  <1>4. QED
    BY <1>1, <1>2, <1>3

(* A process that runs for a unit of time has it counted, and noted.       *)
LEMMA RunIsCounted ==
    ASSUME Counters, Elapse, NEW p \in DOMAIN CPU_NS, p \in DOMAIN CPU_NS'
    PROVE  /\ CPU_NS[p] \in Nat /\ ran[p] \in Nat
           /\ \/ CPU_NS'[p] = CPU_NS[p] /\ ran'[p] = ran[p]
              \/ CPU_NS'[p] = CPU_NS[p] + 1 /\ ran'[p] = ran[p] + 1
  <1> DEFINE runs == {q \in Procs : doing'[q] = "run"}
  <1>1. /\ p \in Procs /\ CPU_NS[p] \in Nat /\ ran[p] \in Nat
    BY DEF Counters, Tally
  <1>2. /\ ran' = [q \in Procs |-> IF q \in runs THEN ran[q] + 1 ELSE ran[q]]
        /\ Cardinality(runs) <= 1
        /\ IF runs = {} THEN CPU_NS' = CPU_NS ELSE \E q \in runs : Charge(CPU_NS, q, 1, CPU_NS')
    BY DEF Elapse
  <1>3. CASE runs = {}
    BY <1>1, <1>2, <1>3
  <1>4. CASE runs # {}
    <2>1. PICK q \in runs : Charge(CPU_NS, q, 1, CPU_NS')
      BY <1>2, <1>4
    <2>2. /\ CPU_NS'[q] = (IF q \in DOMAIN CPU_NS THEN CPU_NS[q] ELSE 0) + 1
          /\ \A o \in DOMAIN CPU_NS' \ {q} : CPU_NS'[o] = CPU_NS[o]
      BY <2>1, ChargeIs DEF Counters
    <2>3. p \in runs => p = q
      <3>1. runs \in SUBSET Procs
        OBVIOUS
      <3>2. QED
        BY <1>2, <2>1, <3>1, AtMostOne
    <2>4. QED
      BY <1>1, <1>2, <2>1, <2>2, <2>3
  <1>5. QED
    BY <1>3, <1>4

LEMMA ElapsedEvicts ==
    ASSUME Counters, NothingEvicted, Elapse
    PROVE  NothingEvicted'
  <1>1. UNCHANGED <<capacity, cpu_prev>>
    BY DEF Elapse, collector
  <1> SUFFICES ASSUME Cardinality(DOMAIN CPU_NS') < capacity, NEW p \in DOMAIN cpu_prev.by_pid
               PROVE  p \in DOMAIN CPU_NS' /\ CPU_NS'[p] = cpu_prev.by_pid[p] + ran'[p]
    BY <1>1 DEF NothingEvicted
  <1>2. CPU_NS' = CPU_NS \/ \E q \in Procs : Charge(CPU_NS, q, 1, CPU_NS')
    BY DEF Elapse
  <1>3. Cardinality(DOMAIN CPU_NS) < capacity /\ DOMAIN CPU_NS \subseteq DOMAIN CPU_NS'
    BY <1>2, ChargeSize DEF Counters
  <1>4. p \in DOMAIN CPU_NS /\ p \in DOMAIN CPU_NS' /\ CPU_NS[p] = cpu_prev.by_pid[p] + ran[p]
    BY <1>3 DEF NothingEvicted
  <1>5. cpu_prev.by_pid[p] \in Nat
    BY DEF Counters, Taken, Tally
  <1>6. QED
    BY <1>4, <1>5, RunIsCounted

(* A full read of a map with room: the shares it gives are the shares due. *)
LEMMA ReadShares ==
    ASSUME Counters, NothingEvicted, Shares, ReadCpu
    PROVE  NothingEvicted' /\ Shares'
  <1>1. /\ UNCHANGED <<clock, CPU_NS, capacity, snapshot>>
        /\ tick' = "cpu" /\ ran' = [p \in Procs |-> 0]
        /\ \A t \in cpu_prev.at : clock > t
    BY DEF ReadCpu, kernel
  <1> DEFINE dues(keys) == [p \in IF keys = DOMAIN CPU_NS THEN keys \cup DOMAIN cpu_prev.by_pid ELSE {} |->
                               IF p \in DOMAIN cpu_prev.by_pid
                               THEN Percent(ran[p], 0, clock - value(cpu_prev.at)) ELSE 0]
  <1>2. PICK keys \in SUBSET DOMAIN CPU_NS :
          /\ cpu_prev' = Read(CPU_NS, keys)
          /\ cpu' = CpuDeltas(Read(CPU_NS, keys))
          /\ due' = [cpu |-> dues(keys), io |-> Empty]
    BY DEF ReadCpu
  <1> DEFINE e == elapsed_ns_since(Read(CPU_NS, keys), cpu_prev)
  <1>3. Read(CPU_NS, keys).by_pid = [p \in keys |-> CPU_NS[p]]
    BY DEF Read, Restrict
  <1>4. cpu' = [p \in keys |-> IF p \in DOMAIN cpu_prev.by_pid /\ e > 0
                               THEN Percent(CPU_NS[p], cpu_prev.by_pid[p], e) ELSE 0]
    BY <1>2, <1>3 DEF CpuDeltas
  <1>5. NothingEvicted'
    <2>1. \A p \in DOMAIN cpu_prev'.by_pid : p \in DOMAIN CPU_NS /\ CPU_NS[p] = cpu_prev'.by_pid[p] + ran'[p]
      BY <1>1, <1>2, <1>3 DEF Counters, Tally
    <2>2. QED
      BY <1>1, <2>1 DEF NothingEvicted
  <1>6. ASSUME Cardinality(DOMAIN cpu') < capacity, keys = DOMAIN CPU_NS
        PROVE  dues(keys) = cpu'
    <2>1. Cardinality(DOMAIN CPU_NS) < capacity
      BY <1>4, <1>6
    <2>2. DOMAIN cpu_prev.by_pid \subseteq keys
      BY <1>6, <2>1 DEF NothingEvicted
    <2>3. ASSUME NEW p \in DOMAIN cpu_prev.by_pid
          PROVE  e > 0 /\ Percent(ran[p], 0, clock - value(cpu_prev.at)) = Percent(CPU_NS[p], cpu_prev.by_pid[p], e)
      <3>1. CPU_NS[p] = cpu_prev.by_pid[p] + ran[p]
        BY <2>1 DEF NothingEvicted
      <3>2. cpu_prev.by_pid[p] \in Nat /\ ran[p] \in Nat
        BY DEF Counters, Taken, Tally
      <3>3. PICK t \in 0..clock : cpu_prev.at = {t}
        BY DEF Counters, Taken
      <3>4. value(cpu_prev.at) = t
        BY <3>3, Value
      <3>5. e = clock - t /\ clock > t /\ clock \in Nat
        BY <1>1, <3>3, Interval DEF Counters
      <3>6. Less(ran[p], 0) = ran[p] /\ Less(CPU_NS[p], cpu_prev.by_pid[p]) = ran[p]
        BY <3>1, <3>2 DEF Less
      <3>7. QED
        BY <3>4, <3>5, <3>6 DEF Percent
    <2>4. dues(keys) = [p \in keys |-> IF p \in DOMAIN cpu_prev.by_pid
                                       THEN Percent(ran[p], 0, clock - value(cpu_prev.at)) ELSE 0]
      BY <1>6, <2>2
    <2> HIDE DEF dues, e
    <2>5. QED
      BY <1>4, <2>3, <2>4
  <1>7. keys # DOMAIN CPU_NS => DOMAIN dues(keys) = {}
    OBVIOUS
  <1>8. due'.cpu = dues(keys) /\ due' = [cpu |-> due'.cpu, io |-> due'.io]
    BY <1>2
  <1> HIDE DEF dues
  <1>9. DOMAIN cpu' \subseteq Procs
    BY <1>4 DEF Counters, Tally
  <1>10. Cardinality(DOMAIN cpu') < capacity => DOMAIN due'.cpu = {} \/ due'.cpu = cpu'
    BY <1>6, <1>7, <1>8
  <1>11. TopIsListed'
    BY <1>1 DEF TopIsListed
  <1>12. QED
    BY <1>1, <1>5, <1>8, <1>9, <1>10, <1>11 DEF Shares

LEMMA PublishedShares ==
    ASSUME Counters, NothingEvicted, Shares, capacity \in Nat, Publish
    PROVE  NothingEvicted' /\ Shares'
  <1>1. UNCHANGED <<clock, CPU_NS, capacity, cpu_prev, ran>> /\ tick = "cpu" /\ tick' = "none" /\ cpu' = Empty
    BY DEF Publish, kernel
  <1>2. PICK keys \in SUBSET DOMAIN IOWAIT_NS :
          LET io == IoDeltas(Read(IOWAIT_NS, keys)) IN
          /\ \E by_cpu \in top_pids(cpu), by_io \in top_pids(io) :
                snapshot' = Some([processes |-> {enrich(p, io) : p \in by_cpu \cup by_io},
                             total_cpu |-> Total(cpu) \div online, total_io |-> Total(io),
                             tracked |-> Cardinality(DOMAIN cpu),
                             at_capacity |-> Cardinality(DOMAIN cpu) >= capacity])
          /\ due' = [due EXCEPT !.io = io]
    BY DEF Publish
  <1> DEFINE io == IoDeltas(Read(IOWAIT_NS, keys))
  <1>3. PICK by_cpu \in top_pids(cpu), by_io \in top_pids(io) :
          snapshot' = {[processes |-> {enrich(p, io) : p \in by_cpu \cup by_io},
                        total_cpu |-> Total(cpu) \div online, total_io |-> Total(io),
                        tracked |-> Cardinality(DOMAIN cpu),
                        at_capacity |-> Cardinality(DOMAIN cpu) >= capacity]}
    BY <1>2 DEF Some
  <1>4. due' = [cpu |-> due.cpu, io |-> io]
    <2> HIDE DEF io
    <2>1. due = [cpu |-> due.cpu, io |-> due.io] /\ due' = [due EXCEPT !.io = io]
      BY <1>2 DEF Shares, io
    <2>2. QED
      BY <2>1
  <1>5. DOMAIN io \subseteq Procs
    BY DEF IoDeltas, Read, Restrict, Counters, Tally
  <1> HIDE DEF io
  <1>6. ASSUME NEW s \in snapshot', NEW p \in DOMAIN io, Leads(p, io)
        PROVE  \E row \in s.processes : row.pid = p /\ row.io = Some(io[p])
    <2>1. p \in by_io
      BY <1>5, <1>6, LeaderIsTop
    <2>2. enrich(p, io) \in s.processes
      BY <1>3, <2>1
    <2>3. enrich(p, io).pid = p /\ enrich(p, io).io = Some(io[p])
      BY DEF enrich
    <2>4. QED
      BY <2>2, <2>3
  <1>7. ASSUME NEW s \in snapshot', ~s.at_capacity, NEW p \in DOMAIN due.cpu, Leads(p, due.cpu)
        PROVE  \E row \in s.processes : row.pid = p /\ row.cpu = due.cpu[p]
    <2>1. DOMAIN cpu \subseteq Procs /\ IsFiniteSet(DOMAIN cpu)
      BY FS_Subset, ReportAssumption DEF Shares
    <2>2. Cardinality(DOMAIN cpu) < capacity
      <3>1. s = [processes |-> {enrich(q, io) : q \in by_cpu \cup by_io},
                 total_cpu |-> Total(cpu) \div online, total_io |-> Total(io),
                 tracked |-> Cardinality(DOMAIN cpu),
                 at_capacity |-> Cardinality(DOMAIN cpu) >= capacity]
        BY <1>3, <1>7
      <3>2. ~(Cardinality(DOMAIN cpu) >= capacity)
        BY <1>7, <3>1, Zenon
      <3>3. Cardinality(DOMAIN cpu) \in Nat
        BY <2>1, FS_CardinalityType
      <3>4. QED
        BY <3>2, <3>3
    <2>3. due.cpu = cpu
      BY <1>1, <1>7, <2>2 DEF Shares
    <2>4. p \in by_cpu
      BY <1>7, <2>1, <2>3, LeaderIsTop
    <2>5. enrich(p, io) \in s.processes
      BY <1>3, <2>4
    <2>6. enrich(p, io).pid = p /\ enrich(p, io).cpu = cpu[p]
      BY <1>7, <2>3 DEF enrich
    <2>7. QED
      BY <2>3, <2>5, <2>6
  <1>8. TopIsListed'
    BY <1>4, <1>6, <1>7 DEF TopIsListed, Leads
  <1>9. QED
    BY <1>1, <1>4, <1>8 DEF NothingEvicted, Shares, Empty

-----------------------------------------------------------------------------
(* The clock bounds what it drives. *)
LEMMA ElapsedSizes ==
    ASSUME Counters, \A p \in Procs : Waits(p), Sizes, Elapse
    PROVE  Sizes'
  <1>1. clock' = clock + 1 /\ clock \in Nat /\ UNCHANGED <<cpu_prev, io_prev, snapshot>>
        /\ lost' = lost \cup (DOMAIN IOWAIT_NS \ DOMAIN IOWAIT_NS')
    BY DEF Elapse, collector, Counters
  <1>2. ASSUME NEW p \in Procs
        PROVE  /\ blocked'[p] <= waited'[p] /\ waited'[p] <= clock'
               /\ p \in DOMAIN IOWAIT_NS' => IOWAIT_NS'[p] + blocked'[p] <= waited'[p]
    <2>1. /\ blocked'[p] + Ended(p) = blocked[p] + Unit(p)
          /\ waited'[p] = waited[p] + Unit(p)
          /\ p \in DOMAIN IOWAIT_NS' => IOWAIT_NS'[p] = Had(p) + Ended(p)
      BY Elapsed DEF Waits
    <2>2. /\ blocked[p] \in Nat /\ waited[p] \in Nat /\ blocked'[p] \in Nat
          /\ Had(p) \in Nat /\ Ended(p) \in Nat /\ Unit(p) \in 0..1
      <3>1. Counters'
        BY ElapsedTypes
      <3>2. QED
        BY <3>1 DEF Counters, Tally, Had, Ended, Unit
    <2>3. blocked[p] <= waited[p] /\ waited[p] <= clock /\ Had(p) + blocked[p] <= waited[p]
      BY <2>2 DEF Sizes, Had
    <2>4. QED
      BY <1>1, <2>1, <2>2, <2>3
  <1>3. ASSUME NEW p \in DOMAIN CPU_NS'
        PROVE  CPU_NS'[p] <= clock'
    <2>1. CASE CPU_NS' = CPU_NS
      <3>1. CPU_NS[p] \in Nat /\ CPU_NS[p] <= clock
        BY <1>3, <2>1 DEF Counters, Tally, Sizes
      <3>2. QED
        BY <1>1, <2>1, <3>1
    <2>2. ASSUME NEW q \in Procs, Charge(CPU_NS, q, 1, CPU_NS')
          PROVE  CPU_NS'[p] <= clock'
      <3>1. /\ CPU_NS'[q] = (IF q \in DOMAIN CPU_NS THEN CPU_NS[q] ELSE 0) + 1
            /\ p # q => p \in DOMAIN CPU_NS /\ CPU_NS'[p] = CPU_NS[p]
        BY <1>3, <2>2, ChargeIs DEF Counters
      <3>2. \A o \in DOMAIN CPU_NS : CPU_NS[o] \in Nat /\ CPU_NS[o] <= clock
        BY DEF Counters, Tally, Sizes
      <3>3. QED
        BY <1>1, <3>1, <3>2
    <2>3. QED
      BY <2>1, <2>2 DEF Elapse
  <1>4. ASSUME NEW f \in {cpu_prev.by_pid, io_prev.by_pid}, NEW p \in DOMAIN f
        PROVE  f[p] <= clock'
    <2>1. f[p] \in Nat /\ f[p] <= clock
      BY DEF Counters, Taken, Tally, Sizes
    <2>2. QED
      BY <1>1, <2>1
  <1>5. Tally(IOWAIT_NS') /\ Tally(IOWAIT_NS)
    BY ElapsedTypes DEF Counters
  <1>6. QED
    BY <1>1, <1>2, <1>3, <1>4, <1>5 DEF Sizes, Tally

LEMMA ReadSizes ==
    ASSUME Counters, Sizes, ReadCpu
    PROVE  Sizes'
  <1>1. UNCHANGED <<clock, doing, blocked, CPU_NS, IOWAIT_NS, io_prev, snapshot, waited, lost>>
    BY DEF ReadCpu, kernel
  <1>2. \A p \in DOMAIN cpu_prev'.by_pid : p \in DOMAIN CPU_NS /\ cpu_prev'.by_pid[p] = CPU_NS[p]
    BY DEF ReadCpu, Read, Restrict
  <1>3. QED
    BY <1>1, <1>2 DEF Sizes

LEMMA PublishedSizes ==
    ASSUME Counters, Shares, Sizes, Publish
    PROVE  Sizes'
  <1>1. UNCHANGED <<clock, doing, blocked, CPU_NS, IOWAIT_NS, cpu_prev, waited>>
    BY DEF Publish, kernel
  <1>2. PICK keys \in SUBSET DOMAIN IOWAIT_NS :
          LET io == IoDeltas(Read(IOWAIT_NS, keys)) IN
          /\ io_prev' = Read(IOWAIT_NS, keys)
          /\ \E by_cpu \in top_pids(cpu), by_io \in top_pids(io) :
                snapshot' = Some([processes |-> {enrich(p, io) : p \in by_cpu \cup by_io},
                             total_cpu |-> Total(cpu) \div online, total_io |-> Total(io),
                             tracked |-> Cardinality(DOMAIN cpu),
                             at_capacity |-> Cardinality(DOMAIN cpu) >= capacity])
    BY DEF Publish
  <1> DEFINE io == IoDeltas(Read(IOWAIT_NS, keys))
  <1>3. PICK by_cpu \in top_pids(cpu), by_io \in top_pids(io) :
          snapshot' = {[processes |-> {enrich(p, io) : p \in by_cpu \cup by_io},
                        total_cpu |-> Total(cpu) \div online, total_io |-> Total(io),
                        tracked |-> Cardinality(DOMAIN cpu),
                        at_capacity |-> Cardinality(DOMAIN cpu) >= capacity]}
    BY <1>2 DEF Some
  <1>4. DOMAIN io \subseteq Procs
    BY DEF IoDeltas, Read, Restrict, Counters, Tally
  <1>5. \A p \in DOMAIN io_prev'.by_pid : io_prev'.by_pid[p] <= clock
    <2>1. \A p \in DOMAIN io_prev'.by_pid : p \in DOMAIN IOWAIT_NS /\ io_prev'.by_pid[p] = IOWAIT_NS[p]
      BY <1>2 DEF Read, Restrict
    <2>2. ASSUME NEW p \in DOMAIN IOWAIT_NS PROVE IOWAIT_NS[p] <= clock
      <3>1. IOWAIT_NS[p] \in Nat /\ blocked[p] \in Nat /\ waited[p] \in Nat /\ clock \in Nat
        BY DEF Counters, Tally
      <3>2. IOWAIT_NS[p] + blocked[p] <= waited[p] /\ waited[p] <= clock
        BY DEF Counters, Tally, Sizes
      <3>3. QED
        BY <3>1, <3>2
    <2>3. QED
      BY <2>1, <2>2
  <1> HIDE DEF io
  <1>6. ASSUME NEW s \in snapshot'
        PROVE  Cardinality(s.processes) <= 2 * MAX_ROWS /\ s.tracked <= Cardinality(Procs)
    <2> DEFINE listed == by_cpu \cup by_io
    <2>1. s.processes = {enrich(p, io) : p \in listed} /\ s.tracked = Cardinality(DOMAIN cpu)
      BY <1>3
    <2>2. /\ IsFiniteSet(by_cpu) /\ Cardinality(by_cpu) \in Nat /\ Cardinality(by_cpu) <= MAX_ROWS
          /\ IsFiniteSet(by_io) /\ Cardinality(by_io) \in Nat /\ Cardinality(by_io) <= MAX_ROWS
      BY <1>4, TopSize DEF Shares
    <2>3. /\ IsFiniteSet(listed)
          /\ Cardinality(listed) = Cardinality(by_cpu) + Cardinality(by_io) - Cardinality(by_cpu \cap by_io)
      BY <2>2, FS_Union
    <2>4. Cardinality(by_cpu \cap by_io) \in Nat /\ Cardinality(listed) \in Nat /\ MAX_ROWS \in Nat
      BY <2>2, <2>3, FS_Intersection, FS_CardinalityType, ReportAssumption
    <2>5. Cardinality(listed) <= 2 * MAX_ROWS
      BY <2>2, <2>3, <2>4
    <2> HIDE DEF listed
    <2>6. IsFiniteSet(s.processes) /\ Cardinality(s.processes) <= Cardinality(listed)
      <3> DEFINE rows == [p \in listed |-> enrich(p, io)]
      <3>1. rows \in Surjection(listed, s.processes)
        BY <2>1 DEF Surjection
      <3>2. QED
        BY <2>3, <3>1, FS_Surjection
    <2>7. Cardinality(s.processes) \in Nat
      BY <2>6, FS_CardinalityType
    <2>8. Cardinality(DOMAIN cpu) <= Cardinality(Procs)
      BY FS_Subset, ReportAssumption DEF Shares
    <2>9. QED
      BY <2>1, <2>4, <2>5, <2>6, <2>7, <2>8
  <1>7. lost' \subseteq Procs
    BY DEF Publish, Sizes, Counters, Tally
  <1>8. QED
    BY <1>1, <1>5, <1>6, <1>7 DEF Sizes

-----------------------------------------------------------------------------
Told == NothingEvicted /\ Shares /\ Sizes /\ Asleep

LEMMA ElapsedTold ==
    ASSUME Accounted, Told, Elapse
    PROVE  NothingEvicted' /\ Shares' /\ Sizes'
  <1>1. UNCHANGED <<tick, cpu, snapshot, due, capacity>>
    BY DEF Elapse, collector
  <1>2. Shares'
    BY <1>1 DEF Told, Shares, TopIsListed, Leads
  <1>3. QED
    BY <1>2, ElapsedEvicts, ElapsedSizes DEF Accounted, Told

LEMMA StillTold ==
    ASSUME Accounted, Told, Still
    PROVE  Told'
  <1>1. /\ UNCHANGED <<clock, doing, blocked, CPU_NS, IOWAIT_NS, tick, cpu_prev, io_prev, cpu, snapshot>>
        /\ UNCHANGED <<waited, due, ran, lost>>
        /\ at' \notin Awake => at \notin Awake
        /\ capacity' = capacity \/ at \notin Awake
    BY DEF Still, kernel, collector, history
  <1>2. at \notin Awake => tick = "none" /\ DOMAIN cpu_prev.by_pid = {}
    BY DEF Told, Asleep, Awake
  <1>3. NothingEvicted'
    BY <1>1, <1>2 DEF Told, NothingEvicted
  <1>4. TopIsListed'
    BY <1>1 DEF Told, Shares, TopIsListed, Leads
  <1>5. Shares'
    BY <1>1, <1>2, <1>4 DEF Told, Shares
  <1>6. Sizes'
    BY <1>1 DEF Told, Sizes
  <1>7. Asleep'
    BY <1>1 DEF Told, Asleep, Awake
  <1>8. QED
    BY <1>3, <1>5, <1>6, <1>7 DEF Told

LEMMA FreshTold == Fresh => Told
  <1> SUFFICES ASSUME Fresh PROVE Told
    OBVIOUS
  <1>1. DOMAIN Empty = {} /\ Default.by_pid = Empty
    BY DEF Empty, Default
  <1>2. /\ clock = 0 /\ blocked = [p \in Procs |-> 0] /\ waited = [p \in Procs |-> 0]
        /\ CPU_NS = Empty /\ IOWAIT_NS = Empty /\ cpu_prev = Default /\ io_prev = Default
        /\ tick = "none" /\ cpu = Empty /\ snapshot = {} /\ lost = {} /\ due = [cpu |-> Empty, io |-> Empty]
    BY DEF Fresh, None
  <1>3. NothingEvicted /\ Asleep
    BY <1>1, <1>2 DEF NothingEvicted, Asleep, None
  <1>4. Shares
    <2>1. due = [cpu |-> due.cpu, io |-> due.io]
      BY <1>2
    <2>2. TopIsListed
      BY <1>2 DEF TopIsListed
    <2>3. QED
      BY <1>1, <1>2, <2>1, <2>2 DEF Shares
  <1>5. Sizes
    BY <1>1, <1>2 DEF Sizes
  <1>6. QED
    BY <1>3, <1>4, <1>5 DEF Told

LEMMA NextTold == Hooks /\ Launched /\ Accounted /\ Told /\ [Next]_vars => Told'
  <1> SUFFICES ASSUME Hooks, Launched, Accounted, Told, [Next]_vars PROVE Told'
    OBVIOUS
  <1>1. CASE Still
    BY <1>1, StillTold
  <1>2. CASE Reports
    <2>1. Asleep'
      BY <1>2 DEF Reports, Asleep, Awake
    <2>2. CASE Elapse
      BY <2>1, <2>2, ElapsedTold DEF Told
    <2>3. CASE ReadCpu
      BY <2>1, <2>3, ReadShares, ReadSizes DEF Accounted, Told
    <2>4. CASE Publish
      BY <2>1, <2>4, PublishedShares, PublishedSizes DEF Accounted, Launched, Told
    <2>5. QED
      BY <1>2, <2>2, <2>3, <2>4 DEF Reports
  <1>3. CASE Forgets
    <2>1. Fresh'
      BY <1>3, GoneIsFresh DEF Forgets
    <2>2. (Fresh => Told)'
      BY FreshTold, PTL
    <2>3. QED
      BY <2>1, <2>2
  <1>4. QED
    BY <1>1, <1>2, <1>3, ReportStep

LEMMA ToldHolds == Spec => []Told
  <1>1. Init => Told
    BY FreshTold DEF Init
  <1>2. QED
    BY <1>1, NextTold, CleanHolds, LaunchedHolds, AccountedHolds, PTL DEF Spec, Clean

(* The leaders of the interval have a row that says what was billed to     *)
(* them in it: for any processes, any ties, any interleaving of time with  *)
(* the two halves of a tick, any eviction and any read cut short, of which *)
(* the CPU time is spared as long as the snapshot is below capacity.       *)
THEOREM TopListed == Spec => []TopIsListed
  <1>1. Told => TopIsListed
    BY DEF Told, Shares
  <1>2. QED
    BY <1>1, ToldHolds, PTL

-----------------------------------------------------------------------------
(* Of a non-empty set of numbers there is a smallest. *)
LEMMA Smallest ==
    ASSUME NEW S, S \subseteq Nat, S # {}
    PROVE  \E m \in S : \A k \in S : m <= k
  <1>1. PICK n \in S : TRUE
    OBVIOUS
  <1> DEFINE U == 0..n
             upto(k) == 0..k
             T == {upto(k) : k \in {k \in S : k <= n}}
  <1>2. n \in Nat
    BY <1>1
  <1>3. IsFiniteSet(U)
    BY <1>2, FS_Interval
  <1>4. T \subseteq SUBSET U /\ T # {}
    <2>1. ASSUME NEW k \in S, k <= n
          PROVE  upto(k) \in SUBSET U
      BY <1>2, <2>1
    <2>2. upto(n) \in T
      BY <1>1, <1>2
    <2>3. QED BY <2>1, <2>2
  <1>5. IsWellFoundedOn(StrictSubsetOrdering(U), FiniteSubsetsOf(U)) /\ FiniteSubsetsOf(U) = SUBSET U
    <2> HIDE DEF U
    <2>1. QED BY <1>3, FS_StrictSubsetOrderingWellFounded, FS_FiniteSubsetsOfFinite
  <1>6. PICK t \in T : \A u \in T : ~(<<u, t>> \in StrictSubsetOrdering(U))
    <2> HIDE DEF T, U
    <2>1. QED BY <1>4, <1>5, WFMin
  <1>7. PICK m \in S : m <= n /\ t = upto(m)
    OBVIOUS
  <1>8. ASSUME NEW k \in S, k < m
        PROVE  FALSE
    <2>1. k \in Nat /\ m \in Nat /\ k <= n
      BY <1>2, <1>7, <1>8
    <2>2. upto(k) \in T
      BY <2>1
    <2>3. upto(k) \subseteq upto(m) /\ upto(k) # upto(m) /\ upto(m) \subseteq U
      <3>1. m \in upto(m) /\ m \notin upto(k)
        BY <1>8, <2>1
      <3>2. QED BY <1>2, <1>7, <1>8, <2>1, <3>1
    <2> HIDE DEF upto, U, T
    <2>4. <<upto(k), upto(m)>> \in StrictSubsetOrdering(U)
      BY <2>3 DEF StrictSubsetOrdering
    <2>5. QED BY <1>6, <1>7, <2>2, <2>4
  <1>9. \A k \in S : k \in Nat /\ m \in Nat
    OBVIOUS
  <1>10. QED BY <1>8, <1>9

-----------------------------------------------------------------------------
(* FlattenSeq concatenates one sequence after the other. *)
Joins(f, ss, n) == f = [i \in 1..n |-> IF i = 1 THEN ss[i] ELSE f[i - 1] \o ss[i]]

(* There is such a function. *)
LEMMA JoinExists ==
    ASSUME NEW ss, NEW n \in Nat, n > 0
    PROVE  \E f : Joins(f, ss, n)
  <1> DEFINE Bad == {k \in Nat \ {0} : ~ \E f : Joins(f, ss, k)}
  <1>1. SUFFICES ASSUME Bad # {} PROVE FALSE
    OBVIOUS
  <1>2. Bad \subseteq Nat
    OBVIOUS
  <1> HIDE DEF Bad
  <1>3. PICK m \in Bad : \A k \in Bad : m <= k
    BY <1>1, <1>2, Smallest
  <1>4. m \in Nat \ {0} /\ ~ \E f : Joins(f, ss, m)
    BY DEF Bad
  <1>5. CASE m = 1
    <2> DEFINE f == [i \in 1..1 |-> ss[1]]
    <2>1. Joins(f, ss, 1)
      BY DEF Joins
    <2>2. QED BY <1>4, <1>5, <2>1
  <1>6. CASE m # 1
    <2>1. m - 1 \in Nat \ {0} /\ ~(m <= m - 1)
      BY <1>4, <1>6
    <2>2. PICK g : Joins(g, ss, m - 1)
      BY <1>3, <2>1 DEF Bad
    <2> DEFINE f == [i \in 1..m |-> IF i = m THEN g[m - 1] \o ss[m] ELSE g[i]]
    <2>3. ASSUME NEW i \in 1..m
          PROVE  f[i] = IF i = 1 THEN ss[i] ELSE f[i - 1] \o ss[i]
      <3>0. \A j \in 1..m - 1 : g[j] = IF j = 1 THEN ss[j] ELSE g[j - 1] \o ss[j]
        BY <2>2 DEF Joins
      <3>1. CASE i = m
        <4>1. m - 1 \in 1..m /\ m - 1 # m
          BY <1>4, <2>1
        <4>2. QED BY <1>6, <3>1, <4>1
      <3>2. CASE i # m
        <4>1. i \in 1..m - 1 /\ (i # 1 => i - 1 \in 1..m /\ i - 1 # m)
          BY <1>4, <3>2
        <4>2. QED BY <3>0, <3>2, <4>1
      <3>3. QED BY <3>1, <3>2
    <2>4. Joins(f, ss, m)
      BY <2>3 DEF Joins
    <2>5. QED BY <1>4, <2>4
  <1>7. QED BY <1>5, <1>6

LEMMA FlattenJoins ==
    ASSUME NEW ss, Len(ss) \in Nat, Len(ss) > 0
    PROVE  \E f : Joins(f, ss, Len(ss)) /\ FlattenSeq(ss) = f[Len(ss)]
  <1> DEFINE n == Len(ss)
             flatten == CHOOSE f : f = [i \in 1..n |-> IF i = 1 THEN ss[i] ELSE f[i - 1] \o ss[i]]
  <1>1. FlattenSeq(ss) = flatten[n]
    BY DEF FlattenSeq
  <1>2. \E f : Joins(f, ss, n)
    BY JoinExists
  <1>3. Joins(flatten, ss, n)
    BY <1>2 DEF Joins
  <1>4. QED BY <1>1, <1>3

(* The flattened beginning of a sequence of sequences. *)
Flat(ss, i) == FlattenSeq(SubSeq(ss, 1, i))

LEMMA Flattened ==
    ASSUME NEW ss \in Seq(Seq(Word))
    PROVE  /\ Flat(ss, 0) = <<>>
           /\ Flat(ss, Len(ss)) = FlattenSeq(ss)
           /\ \A i \in 1..Len(ss) : Flat(ss, i) = Flat(ss, i - 1) \o ss[i]
           /\ \A i \in 0..Len(ss) : Flat(ss, i) \in Seq(Word)
  <1> DEFINE sub(i) == SubSeq(ss, 1, i)
  <1>1. /\ Len(ss) \in Nat
        /\ \A i \in 0..Len(ss) : Len(sub(i)) = i /\ \A j \in 1..i : sub(i)[j] = ss[j]
    OBVIOUS
  <1>2. sub(0) = <<>> /\ sub(Len(ss)) = ss
    OBVIOUS
  <1> HIDE DEF sub
  <1>3. Flat(ss, 0) = <<>>
    <2>1. FlattenSeq(sub(0)) = sub(0)
      BY <1>1 DEF FlattenSeq
    <2>2. QED BY <1>2, <2>1 DEF Flat, sub
  <1>4. Flat(ss, Len(ss)) = FlattenSeq(ss)
    BY <1>2 DEF Flat, sub
  <1>5. ASSUME NEW i \in 1..Len(ss)
        PROVE  Flat(ss, i) = Flat(ss, i - 1) \o ss[i]
    <2>0. i \in Nat /\ i \in 0..Len(ss) /\ i > 0 /\ i - 1 \in 0..Len(ss)
      BY <1>1
    <2>1. PICK f : Joins(f, sub(i), i) /\ Flat(ss, i) = f[i]
      <3>1. Len(sub(i)) = i
        BY <1>1, <2>0
      <3>2. QED BY <2>0, <3>1, FlattenJoins DEF Flat, sub
    <2>2. f[i] = IF i = 1 THEN sub(i)[i] ELSE f[i - 1] \o sub(i)[i]
      <3>1. f = [j \in 1..i |-> IF j = 1 THEN sub(i)[j] ELSE f[j - 1] \o sub(i)[j]]
        BY <2>1 DEF Joins
      <3>2. i \in 1..i
        BY <2>0
      <3>3. QED BY <3>1, <3>2
    <2>3. sub(i)[i] = ss[i]
      BY <1>1, <2>0
    <2>4. CASE i = 1
      <3>1. ss[1] \in Seq(Word) /\ Flat(ss, 0) \o ss[1] = ss[1]
        BY <1>3, <2>4
      <3>2. QED BY <2>1, <2>2, <2>3, <2>4, <3>1
    <2>5. CASE i # 1
      <3>1. i - 1 \in Nat /\ i - 1 > 0 /\ Len(sub(i - 1)) = i - 1
        BY <1>1, <2>0, <2>5
      <3>2. PICK g : Joins(g, sub(i - 1), i - 1) /\ Flat(ss, i - 1) = g[i - 1]
        BY <3>1, FlattenJoins DEF Flat, sub
      <3>3. \A j \in 1..i - 1 : sub(i - 1)[j] = sub(i)[j]
        <4>1. \A j \in 1..i - 1 : j \in 1..i
          BY <2>0
        <4>2. QED BY <1>1, <2>0, <4>1
      <3>4. g[i - 1] = f[i - 1]
        <4> DEFINE m == i - 1
                   s == sub(i - 1)
                   t == sub(i)
        <4>1. m <= i /\ m \in 1..m /\ m \in Nat /\ i \in Nat
          BY <2>0, <3>1
        <4>2. Joins(g, s, m) /\ Joins(f, t, i) /\ \A j \in 1..m : s[j] = t[j]
          BY <2>1, <3>2, <3>3
        <4> HIDE DEF m, s, t
        <4>3. \A j \in 1..m : g[j] = f[j]
          <5> DEFINE Bad == {j \in 1..m : g[j] # f[j]}
          <5>1. SUFFICES ASSUME Bad # {} PROVE FALSE
            OBVIOUS
          <5>2. Bad \subseteq Nat
            OBVIOUS
          <5> HIDE DEF Bad
          <5>3. PICK j \in Bad : \A k \in Bad : j <= k
            BY <5>1, <5>2, Smallest
          <5>4. j \in 1..m /\ j \in 1..i /\ g[j] # f[j]
            BY <4>1 DEF Bad
          <5>5. /\ g[j] = IF j = 1 THEN s[j] ELSE g[j - 1] \o s[j]
                /\ f[j] = IF j = 1 THEN t[j] ELSE f[j - 1] \o t[j]
            BY <4>2, <5>4 DEF Joins
          <5>6. j # 1 => j - 1 \in 1..m /\ ~(j <= j - 1)
            BY <4>1, <5>4
          <5>7. j # 1 => g[j - 1] = f[j - 1]
            BY <5>3, <5>6 DEF Bad
          <5>8. QED BY <4>2, <5>4, <5>5, <5>7
        <4>4. QED BY <4>1, <4>3 DEF m
      <3>5. QED BY <2>1, <2>2, <2>3, <2>5, <3>2, <3>4
    <2>6. QED BY <2>4, <2>5
  <1>6. \A i \in 0..Len(ss) : Flat(ss, i) \in Seq(Word)
    <2> DEFINE Bad == {i \in 0..Len(ss) : Flat(ss, i) \notin Seq(Word)}
    <2>1. SUFFICES ASSUME Bad # {} PROVE FALSE
      OBVIOUS
    <2>2. Bad \subseteq Nat
      OBVIOUS
    <2> HIDE DEF Bad
    <2>3. PICK i \in Bad : \A k \in Bad : i <= k
      BY <2>1, <2>2, Smallest
    <2>4. i \in 0..Len(ss) /\ Flat(ss, i) \notin Seq(Word)
      BY DEF Bad
    <2>5. i # 0
      <3>1. <<>> \in Seq(Word)
        OBVIOUS
      <3>2. QED BY <1>3, <2>4, <3>1
    <2>6. i \in 1..Len(ss) /\ i - 1 \in 0..Len(ss) /\ ~(i <= i - 1)
      BY <1>1, <2>4, <2>5
    <2>7. Flat(ss, i - 1) \in Seq(Word) /\ ss[i] \in Seq(Word)
      BY <2>3, <2>6 DEF Bad
    <2>8. Flat(ss, i) \in Seq(Word)
      <3>1. \A a, b \in Seq(Word) : a \o b \in Seq(Word)
        OBVIOUS
      <3>2. Flat(ss, i) = Flat(ss, i - 1) \o ss[i]
        BY <1>5, <2>6
      <3>3. QED BY <2>7, <3>1, <3>2, Zenon
    <2>9. QED BY <2>4, <2>8
  <1>7. QED BY <1>3, <1>4, <1>5, <1>6

(* So what has been joined stays where it is. *)
LEMMA FlatKeeps ==
    ASSUME NEW ss \in Seq(Seq(Word)), NEW i \in 0..Len(ss), NEW j \in 0..Len(ss), i <= j
    PROVE  /\ Len(Flat(ss, i)) \in Nat /\ Len(Flat(ss, j)) \in Nat
           /\ Len(Flat(ss, i)) <= Len(Flat(ss, j))
           /\ \A k \in 1..Len(Flat(ss, i)) : Flat(ss, j)[k] = Flat(ss, i)[k]
  <1> DEFINE Keeps(n) == /\ Len(Flat(ss, i)) <= Len(Flat(ss, n))
                         /\ \A k \in 1..Len(Flat(ss, i)) : Flat(ss, n)[k] = Flat(ss, i)[k]
             Bad == {n \in i..Len(ss) : ~Keeps(n)}
  <1>0. Len(ss) \in Nat /\ i \in Nat /\ j \in i..Len(ss)
    OBVIOUS
  <1>1. \A n \in 0..Len(ss) : Flat(ss, n) \in Seq(Word) /\ Len(Flat(ss, n)) \in Nat
    <2>1. \A n \in 0..Len(ss) : Flat(ss, n) \in Seq(Word)
      BY Flattened, Zenon
    <2>2. \A a \in Seq(Word) : Len(a) \in Nat
      OBVIOUS
    <2>3. QED BY <2>1, <2>2, Zenon
  <1>2. Bad = {}
    <2>1. SUFFICES ASSUME Bad # {} PROVE FALSE
      OBVIOUS
    <2>2. Bad \subseteq Nat
      BY <1>0
    <2> HIDE DEF Bad
    <2>3. PICK n \in Bad : \A k \in Bad : n <= k
      BY <2>1, <2>2, Smallest
    <2>4. n \in i..Len(ss) /\ ~Keeps(n)
      BY DEF Bad
    <2>5. n # i
      BY <1>0, <1>1, <2>4
    <2>6. n \in 1..Len(ss) /\ n - 1 \in i..Len(ss) /\ n - 1 \in 0..Len(ss) /\ ~(n <= n - 1)
      BY <1>0, <2>4, <2>5
    <2>7. Keeps(n - 1)
      <3> HIDE DEF Keeps
      <3>1. QED BY <2>3, <2>6 DEF Bad
    <2>8. Flat(ss, n) = Flat(ss, n - 1) \o ss[n] /\ ss[n] \in Seq(Word)
      <3>1. Flat(ss, n) = Flat(ss, n - 1) \o ss[n]
        BY <2>6, Flattened, Zenon
      <3>2. QED BY <2>6, <3>1
    <2> DEFINE a == Flat(ss, n - 1)
               b == ss[n]
               c == Flat(ss, i)
    <2>9. a \in Seq(Word) /\ b \in Seq(Word) /\ c \in Seq(Word)
      BY <1>0, <1>1, <2>6, <2>8
    <2>10. Len(c) <= Len(a) /\ \A k \in 1..Len(c) : a[k] = c[k]
      BY <2>7
    <2> HIDE DEF a, b, c
    <2>11. Len(c) <= Len(a \o b) /\ \A k \in 1..Len(c) : (a \o b)[k] = c[k]
      BY <2>9, <2>10
    <2>12. Keeps(n)
      BY <2>8, <2>11 DEF a, b, c
    <2>13. QED BY <2>4, <2>12
  <1>3. QED BY <1>0, <1>1, <1>2

LEMMA Concat ==
    ASSUME NEW a \in Seq(Word), NEW b \in Seq(Word)
    PROVE  /\ a \o b \in Seq(Word) /\ Len(a) \in Nat /\ Len(b) \in Nat /\ Len(a \o b) = Len(a) + Len(b)
           /\ \A k \in 1..Len(a) : (a \o b)[k] = a[k]
           /\ \A k \in 1..Len(b) : (a \o b)[Len(a) + k] = b[k]
  OBVIOUS

(* Each of the joined sequences is found where it was put. *)
LEMMA InPlace ==
    ASSUME NEW ss \in Seq(Seq(Word)), NEW i \in 1..Len(ss)
    PROVE  /\ Len(Flat(ss, i - 1)) \in Nat /\ Len(FlattenSeq(ss)) \in Nat
           /\ Len(Flat(ss, i)) = Len(Flat(ss, i - 1)) + Len(ss[i])
           /\ Len(Flat(ss, i)) <= Len(FlattenSeq(ss))
           /\ \A k \in 1..Len(ss[i]) : FlattenSeq(ss)[Len(Flat(ss, i - 1)) + k] = ss[i][k]
  <1> DEFINE a == Flat(ss, i - 1)
             b == ss[i]
             c == FlattenSeq(ss)
  <1>1. i \in 0..Len(ss) /\ i - 1 \in 0..Len(ss) /\ Len(ss) \in 0..Len(ss) /\ i <= Len(ss) /\ b \in Seq(Word)
    OBVIOUS
  <1>2. Flat(ss, i) = a \o b /\ Flat(ss, Len(ss)) = c
    BY Flattened, Zenon
  <1>3. a \in Seq(Word) /\ c \in Seq(Word)
    BY <1>1, <1>2, Flattened
  <1>4. Len(a \o b) <= Len(c) /\ \A k \in 1..Len(a \o b) : c[k] = (a \o b)[k]
    <2> DEFINE x == Flat(ss, i)
               y == Flat(ss, Len(ss))
    <2>1. Len(x) <= Len(y) /\ \A k \in 1..Len(x) : y[k] = x[k]
      BY <1>1, FlatKeeps
    <2>2. x = a \o b /\ y = c
      BY <1>2
    <2> HIDE DEF x, y, a, b, c
    <2>3. QED BY <2>1, <2>2
  <1> HIDE DEF a, b, c
  <1>5. Len(a) \in Nat /\ Len(b) \in Nat /\ Len(c) \in Nat /\ Len(a \o b) = Len(a) + Len(b)
    BY <1>1, <1>3
  <1>6. ASSUME NEW k \in 1..Len(b)
        PROVE  c[Len(a) + k] = b[k]
    <2>1. Len(a) + k \in 1..Len(a \o b)
      BY <1>5
    <2>2. (a \o b)[Len(a) + k] = b[k]
      BY <1>1, <1>3, <1>5
    <2>3. QED BY <1>4, <2>1, <2>2
  <1>7. QED BY <1>2, <1>4, <1>5, <1>6 DEF a, b, c

-----------------------------------------------------------------------------
(* The words of a record. *)
PartLen(t) == IF t.kind \in {KIND_ENUM, KIND_FUNC_PROTO} THEN 2 ELSE 3
Extra(t) ==
    IF t.kind \in {KIND_INT, KIND_VAR, KIND_DECL_TAG} THEN 1
    ELSE IF t.kind = KIND_ARRAY THEN 3
    ELSE PartLen(t) * Len(t.parts)

LEMMA NumberIs == \A n \in Nat : Number(n) \in Word /\ Number(n).lo = n
  BY DEF Number, Word

LEMMA PartIs ==
    ASSUME NEW t \in BtfType, NEW p \in BtfPart
    PROVE  /\ Part(t, p) \in Seq(Word) /\ Len(Part(t, p)) = PartLen(t)
           /\ t.kind = KIND_STRUCT =>
                 /\ Part(t, p)[1].lo = p.name /\ Part(t, p)[3].lo = p.bits
                 /\ t.kflag = 0 => Part(t, p)[3].hi = 0
  <1>1. p.name \in Nat /\ p.type \in Nat /\ p.bits \in Nat /\ p.width \in Nat
    BY DEF BtfPart
  <1>2. \A n \in {p.name, p.type, p.bits, p.width} : Number(n) \in Word /\ Number(n).lo = n
    BY <1>1, NumberIs
  <1>3. CASE t.kind \in {KIND_STRUCT, KIND_UNION}
    <2> DEFINE w == [lo |-> p.bits, hi |-> IF t.kflag = 1 THEN p.width ELSE 0]
    <2>1. w \in Word /\ w.lo = p.bits /\ (t.kflag = 0 => w.hi = 0)
      BY <1>1 DEF Word
    <2>2. Part(t, p) = <<Number(p.name), Number(p.type), w>>
      BY <1>3 DEF Part
    <2>3. PartLen(t) = 3
      BY <1>3 DEF PartLen, KIND_STRUCT, KIND_UNION, KIND_ENUM, KIND_FUNC_PROTO
    <2> HIDE DEF w
    <2>4. QED BY <1>2, <2>1, <2>2, <2>3
  <1>4. CASE t.kind \in {KIND_ENUM, KIND_FUNC_PROTO}
    <2>1. t.kind \notin {KIND_STRUCT, KIND_UNION}
      BY <1>4 DEF KIND_STRUCT, KIND_UNION, KIND_ENUM, KIND_FUNC_PROTO
    <2>2. Part(t, p) = <<Number(p.name), Number(p.type)>> /\ PartLen(t) = 2
      BY <1>4, <2>1 DEF Part, PartLen
    <2>3. QED BY <1>2, <2>1, <2>2
  <1>5. CASE t.kind \notin {KIND_STRUCT, KIND_UNION, KIND_ENUM, KIND_FUNC_PROTO}
    <2>1. Part(t, p) = <<Number(p.type), Number(p.bits), Number(p.width)>> /\ PartLen(t) = 3
      BY <1>5 DEF Part, PartLen
    <2>2. QED BY <1>2, <1>5, <2>1
  <1>6. QED BY <1>3, <1>4, <1>5

(* Parts of one length lie at multiples of it. *)
LEMMA Blocks ==
    ASSUME NEW ss \in Seq(Seq(Word)), NEW w \in {2, 3}, \A i \in 1..Len(ss) : Len(ss[i]) = w
    PROVE  \A i \in 0..Len(ss) : Len(Flat(ss, i)) = w * i
  <1> DEFINE Bad == {i \in 0..Len(ss) : Len(Flat(ss, i)) # w * i}
  <1>1. SUFFICES ASSUME Bad # {} PROVE FALSE
    OBVIOUS
  <1>2. Bad \subseteq Nat
    OBVIOUS
  <1> HIDE DEF Bad
  <1>3. PICK i \in Bad : \A k \in Bad : i <= k
    BY <1>1, <1>2, Smallest
  <1>4. i \in 0..Len(ss) /\ Len(Flat(ss, i)) # w * i
    BY DEF Bad
  <1>5. i # 0
    <2>1. Len(<<>>) = 0 /\ w * 0 = 0
      OBVIOUS
    <2>2. Flat(ss, 0) = <<>>
      BY Flattened, Zenon
    <2>3. QED BY <1>4, <2>1, <2>2
  <1>6. i \in 1..Len(ss) /\ i - 1 \in 0..Len(ss) /\ ~(i <= i - 1)
    BY <1>4, <1>5
  <1>7. Len(Flat(ss, i - 1)) = w * (i - 1)
    BY <1>3, <1>6 DEF Bad
  <1>8. Len(Flat(ss, i)) = Len(Flat(ss, i - 1)) + w
    <2>1. Len(Flat(ss, i)) = Len(Flat(ss, i - 1)) + Len(ss[i])
      BY <1>6, InPlace, Zenon
    <2>2. Len(ss[i]) = w
      BY <1>6
    <2>3. QED BY <2>1, <2>2
  <1>9. w * i = w * (i - 1) + w
    BY <1>6
  <1>10. QED BY <1>4, <1>7, <1>8, <1>9

LEMMA PayloadIs ==
    ASSUME NEW t \in BtfType
    PROVE  /\ Payload(t) \in Seq(Word) /\ Len(Payload(t)) = Extra(t)
           /\ t.kind = KIND_STRUCT =>
                 \A i \in 1..Len(t.parts), k \in 1..3 : Payload(t)[3 * (i - 1) + k] = Part(t, t.parts[i])[k]
  <1>1. t.parts \in Seq(BtfPart) /\ Len(t.parts) \in Nat /\ DOMAIN t.parts = 1..Len(t.parts)
    BY DEF BtfType
  <1>2. CASE t.kind \in {KIND_INT, KIND_VAR, KIND_DECL_TAG}
    <2>1. Payload(t) = <<Number(32)>> /\ Extra(t) = 1
      BY <1>2 DEF Payload, Extra
    <2>2. Number(32) \in Word
      BY NumberIs
    <2>3. t.kind # KIND_STRUCT
      BY <1>2 DEF KIND_INT, KIND_VAR, KIND_DECL_TAG, KIND_STRUCT
    <2>4. QED BY <2>1, <2>2, <2>3
  <1>3. CASE t.kind = KIND_ARRAY
    <2>1. Payload(t) = <<Number(1), Number(1), Number(4)>> /\ Extra(t) = 3 /\ t.kind # KIND_STRUCT
      BY <1>3 DEF Payload, Extra, KIND_INT, KIND_VAR, KIND_DECL_TAG, KIND_STRUCT, KIND_ARRAY
    <2>2. Number(1) \in Word /\ Number(4) \in Word
      BY NumberIs
    <2>3. QED BY <2>1, <2>2
  <1>4. CASE t.kind \notin {KIND_INT, KIND_VAR, KIND_DECL_TAG, KIND_ARRAY}
    <2> DEFINE ss == [i \in DOMAIN t.parts |-> Part(t, t.parts[i])]
               n == Len(t.parts)
    <2>1. ss \in Seq(Seq(Word)) /\ Len(ss) = n /\ \A i \in 1..n : Len(ss[i]) = PartLen(t) /\ ss[i] = Part(t, t.parts[i])
      <3>1. \A i \in 1..n : ss[i] = Part(t, t.parts[i]) /\ t.parts[i] \in BtfPart
        BY <1>1
      <3>2. \A i \in 1..n : ss[i] \in Seq(Word) /\ Len(ss[i]) = PartLen(t)
        BY <3>1, PartIs
      <3>3. DOMAIN ss = 1..n
        BY <1>1
      <3>4. ss = [i \in 1..n |-> ss[i]]
        BY <1>1
      <3> HIDE DEF ss
      <3>5. ss \in Seq(Seq(Word)) /\ Len(ss) = n
        <4>1. n \in Nat
          BY <1>1
        <4> HIDE DEF n
        <4>2. QED BY <3>2, <3>3, <3>4, <4>1
      <3>6. QED BY <3>1, <3>2, <3>5
    <2>2. Payload(t) = FlattenSeq(ss)
      BY <1>4 DEF Payload
    <2>3. Extra(t) = PartLen(t) * n
      BY <1>4 DEF Extra
    <2>4. PartLen(t) \in {2, 3} /\ (t.kind = KIND_STRUCT => PartLen(t) = 3)
      BY DEF PartLen, KIND_STRUCT, KIND_ENUM, KIND_FUNC_PROTO
    <2> HIDE DEF ss
    <2>5. n \in 0..Len(ss) /\ n \in Nat
      BY <1>1, <2>1
    <2> HIDE DEF n
    <2>6. \A i \in 0..n : Len(Flat(ss, i)) = PartLen(t) * i
      BY <2>1, <2>4, Blocks
    <2>7. Flat(ss, n) = FlattenSeq(ss) /\ Flat(ss, n) \in Seq(Word)
      BY <2>1, <2>5, Flattened
    <2>8. ASSUME t.kind = KIND_STRUCT, NEW i \in 1..n, NEW k \in 1..3
          PROVE  FlattenSeq(ss)[3 * (i - 1) + k] = Part(t, t.parts[i])[k]
      <3>1. i \in 1..Len(ss) /\ Len(ss[i]) = 3 /\ i - 1 \in 0..n
        BY <2>1, <2>4, <2>5, <2>8
      <3>2. FlattenSeq(ss)[Len(Flat(ss, i - 1)) + k] = ss[i][k]
        BY <2>1, <3>1, InPlace
      <3>3. Len(Flat(ss, i - 1)) = 3 * (i - 1)
        BY <2>4, <2>6, <2>8, <3>1
      <3>4. QED BY <2>1, <3>2, <3>3
    <2>9. QED BY <2>2, <2>3, <2>5, <2>6, <2>7, <2>8 DEF n
  <1>5. QED BY <1>2, <1>3, <1>4

LEMMA RecordOf ==
    ASSUME NEW t \in BtfType
    PROVE  /\ Record(t) \in Seq(Word) /\ Extra(t) \in Nat /\ Len(Record(t)) = 3 + Extra(t)
           /\ Record(t)[1].lo = t.name /\ Record(t)[3].lo = t.type
           /\ Record(t)[2].lo % 2^16 = Len(t.parts)
           /\ Record(t)[2].hi % 32 = t.kind /\ Record(t)[2].hi \div 128 = t.kflag
           /\ t.kind = KIND_STRUCT =>
                 \A i \in 1..Len(t.parts) :
                    /\ Record(t)[3 + 3 * (i - 1) + 1].lo = t.parts[i].name
                    /\ Record(t)[3 + 3 * (i - 1) + 3].lo = t.parts[i].bits
                    /\ t.kflag = 0 => Record(t)[3 + 3 * (i - 1) + 3].hi = 0
  <1>1. /\ t.kind \in 1..19 /\ t.name \in Nat /\ t.kflag \in {0, 1} /\ t.type \in Nat
        /\ t.parts \in Seq(BtfPart) /\ Len(t.parts) \in Nat /\ Len(t.parts) < 2^16
    BY DEF BtfType
  <1> DEFINE w == [lo |-> Len(t.parts), hi |-> t.kind + 128 * t.kflag]
  <1>2. w \in Word /\ w.lo = Len(t.parts) /\ w.hi % 32 = t.kind /\ w.hi \div 128 = t.kflag
    <2>1. w.hi \in Nat /\ w.hi % 32 = t.kind /\ w.hi \div 128 = t.kflag
      <3>1. \A k \in 1..19, f \in {0, 1} :
               k + 128 * f \in Nat /\ (k + 128 * f) % 32 = k /\ (k + 128 * f) \div 128 = f
        OBVIOUS
      <3>2. w.hi = t.kind + 128 * t.kflag
        OBVIOUS
      <3>3. LET hi == t.kind + 128 * t.kflag IN hi \in Nat /\ hi % 32 = t.kind /\ hi \div 128 = t.kflag
        BY <1>1, <3>1, Zenon
      <3> HIDE DEF w
      <3>4. QED BY <3>2, <3>3, Zenon
    <2>2. QED BY <1>1, <2>1 DEF Word
  <1>3. Header(t) = <<Number(t.name), w, Number(t.type)>>
    BY DEF Header
  <1>4. w.lo % 2^16 = Len(t.parts)
    <2>1. 2^16 = 65536
      OBVIOUS
    <2>2. \A m \in Nat : m < 2^16 => m % 2^16 = m
      <3>1. \A m \in Nat : m < 65536 => m % 65536 = m
        OBVIOUS
      <3>2. QED BY <2>1, <3>1
    <2> HIDE DEF w
    <2>3. QED BY <1>1, <1>2, <2>2, Zenon
  <1> HIDE DEF w
  <1> DEFINE h == Header(t)
             p == Payload(t)
  <1>5. h \in Seq(Word) /\ Len(h) = 3 /\ h[1] = Number(t.name) /\ h[2] = w /\ h[3] = Number(t.type)
    <2>1. Number(t.name) \in Word /\ Number(t.type) \in Word
      BY <1>1, NumberIs
    <2>2. QED BY <1>2, <1>3, <2>1
  <1>6. p \in Seq(Word) /\ Len(p) = Extra(t) /\ Len(p) \in Nat
    BY PayloadIs
  <1>7. Record(t) = h \o p
    BY DEF Record
  <1> HIDE DEF h, p
  <1>c. /\ h \o p \in Seq(Word) /\ Len(h \o p) = Len(h) + Len(p)
        /\ \A k \in 1..Len(h) : (h \o p)[k] = h[k]
        /\ \A k \in 1..Len(p) : (h \o p)[Len(h) + k] = p[k]
    BY <1>5, <1>6, Concat, Zenon
  <1>8. h \o p \in Seq(Word) /\ Len(h \o p) = 3 + Len(p)
    BY <1>c, <1>5, Zenon
  <1>9. (h \o p)[1] = h[1] /\ (h \o p)[2] = h[2] /\ (h \o p)[3] = h[3]
    <2>2. 1 \in 1..Len(h) /\ 2 \in 1..Len(h) /\ 3 \in 1..Len(h)
      BY <1>5
    <2>3. QED BY <1>c, <2>2, Zenon
  <1>10. \A k \in 1..Len(p) : (h \o p)[3 + k] = p[k]
    BY <1>c, <1>5, Zenon
  <1>11. ASSUME t.kind = KIND_STRUCT, NEW i \in 1..Len(t.parts)
         PROVE  /\ Record(t)[3 + 3 * (i - 1) + 1].lo = t.parts[i].name
                /\ Record(t)[3 + 3 * (i - 1) + 3].lo = t.parts[i].bits
                /\ t.kflag = 0 => Record(t)[3 + 3 * (i - 1) + 3].hi = 0
    <2>1. Len(p) = 3 * Len(t.parts)
      BY <1>6, <1>11 DEF Extra, PartLen, KIND_INT, KIND_VAR, KIND_DECL_TAG, KIND_ARRAY, KIND_ENUM, KIND_FUNC_PROTO, KIND_STRUCT
    <2>2. 3 * (i - 1) + 1 \in 1..Len(p) /\ 3 * (i - 1) + 3 \in 1..Len(p)
      BY <1>1, <2>1
    <2>3. /\ p[3 * (i - 1) + 1] = Part(t, t.parts[i])[1]
          /\ p[3 * (i - 1) + 3] = Part(t, t.parts[i])[3]
      <3>1. 1 \in 1..3 /\ 3 \in 1..3
        OBVIOUS
      <3>2. QED BY <1>11, <3>1, PayloadIs DEF p
    <2>4. /\ Record(t)[3 + 3 * (i - 1) + 1] = p[3 * (i - 1) + 1]
          /\ Record(t)[3 + 3 * (i - 1) + 3] = p[3 * (i - 1) + 3]
      <3>1. 3 + (3 * (i - 1) + 1) = 3 + 3 * (i - 1) + 1 /\ 3 + (3 * (i - 1) + 3) = 3 + 3 * (i - 1) + 3
        BY <1>1
      <3> DEFINE k == 3 * (i - 1) + 1
                 m == 3 * (i - 1) + 3
      <3>2. k \in 1..Len(p) /\ m \in 1..Len(p)
        BY <2>2
      <3>3. 3 + 3 * (i - 1) + 1 = 3 + k /\ 3 + 3 * (i - 1) + 3 = 3 + m
        BY <3>1
      <3> HIDE DEF k, m
      <3>4. Record(t)[3 + k] = p[k] /\ Record(t)[3 + m] = p[m]
        BY <1>7, <1>10, <3>2, Zenon
      <3>5. QED BY <3>3, <3>4 DEF k, m
    <2>5. t.parts[i] \in BtfPart
      BY <1>1
    <2>6. QED BY <1>11, <2>3, <2>4, <2>5, PartIs
  <1>12. QED
    BY <1>1, <1>2, <1>4, <1>5, <1>6, <1>7, <1>8, <1>9, <1>11, NumberIs

-----------------------------------------------------------------------------
(* Where the records of a section lie. *)
LEMMA SectionIs ==
    ASSUME NEW ts \in Seq(BtfType)
    PROVE  /\ Section(ts) \in Seq(Word)
           /\ \A i \in 1..Len(ts) + 1 : StartOf(ts, i) \in Nat
           /\ StartOf(ts, 1) = type_off /\ StartOf(ts, Len(ts) + 1) = type_off + Len(Section(ts))
           /\ \A i \in 1..Len(ts) : 
                 /\ StartOf(ts, i + 1) = StartOf(ts, i) + 3 + Extra(ts[i])
                 /\ \A k \in 1..3 + Extra(ts[i]) : Section(ts)[StartOf(ts, i) - type_off + k] = Record(ts[i])[k]
  <1> DEFINE ss == [i \in DOMAIN ts |-> Record(ts[i])]
             n == Len(ts)
  <1>1. n \in Nat /\ DOMAIN ts = 1..n /\ \A i \in 1..n : ts[i] \in BtfType
    OBVIOUS
  <1>2. ss \in Seq(Seq(Word)) /\ Len(ss) = n /\ \A i \in 1..n : ss[i] = Record(ts[i])
    <2>1. \A i \in 1..n : ss[i] = Record(ts[i])
      BY <1>1
    <2>2. \A i \in 1..n : ss[i] \in Seq(Word)
      BY <1>1, <2>1, RecordOf
    <2>3. ss = [i \in 1..n |-> ss[i]]
      BY <1>1
    <2> HIDE DEF ss
    <2>4. QED BY <1>1, <2>1, <2>2, <2>3
  <1>3. Section(ts) = FlattenSeq(ss)
    BY DEF Section
  <1>4. ASSUME NEW i \in 0..n
        PROVE  Section(SubSeq(ts, 1, i)) = Flat(ss, i)
    <2>1. DOMAIN SubSeq(ts, 1, i) = 1..i /\ \A j \in 1..i : SubSeq(ts, 1, i)[j] = ts[j]
      BY <1>1
    <2>2. SubSeq(ss, 1, i) = [j \in 1..i |-> Record(ts[j])]
      <3>1. SubSeq(ss, 1, i) = [j \in 1..i |-> ss[j]]
        <4> HIDE DEF ss
        <4>1. QED BY <1>1, <1>2
      <3>2. \A j \in 1..i : ss[j] = Record(ts[j])
        BY <1>1, <1>2
      <3> HIDE DEF ss
      <3>3. QED BY <3>1, <3>2
    <2>3. [j \in DOMAIN SubSeq(ts, 1, i) |-> Record(SubSeq(ts, 1, i)[j])] = [j \in 1..i |-> Record(ts[j])]
      BY <2>1
    <2>4. QED BY <2>2, <2>3 DEF Section, Flat
  <1> HIDE DEF ss
  <1>5. \A i \in 1..n + 1 : StartOf(ts, i) = type_off + Len(Flat(ss, i - 1))
    BY <1>1, <1>4 DEF StartOf
  <1>6. Flat(ss, 0) = <<>> /\ Flat(ss, n) = Section(ts) /\ \A i \in 0..n : Flat(ss, i) \in Seq(Word)
    BY <1>2, <1>3, Flattened
  <1>7. Section(ts) \in Seq(Word) /\ \A i \in 0..n : Len(Flat(ss, i)) \in Nat
    BY <1>1, <1>6
  <1>8. \A i \in 1..n + 1 : StartOf(ts, i) \in Nat
    BY <1>1, <1>5, <1>7 DEF type_off
  <1>9. StartOf(ts, 1) = type_off /\ StartOf(ts, n + 1) = type_off + Len(Section(ts))
    <2>1. Len(<<>>) = 0 /\ n + 1 - 1 = n /\ 1 - 1 = 0 /\ 1 \in 1..n + 1 /\ n + 1 \in 1..n + 1
      BY <1>1
    <2>2. QED BY <1>5, <1>6, <2>1 DEF type_off
  <1>10. ASSUME NEW i \in 1..n
         PROVE  /\ StartOf(ts, i + 1) = StartOf(ts, i) + 3 + Extra(ts[i])
                /\ \A k \in 1..3 + Extra(ts[i]) : Section(ts)[StartOf(ts, i) - type_off + k] = Record(ts[i])[k]
    <2>1. Len(ss[i]) = 3 + Extra(ts[i]) /\ Extra(ts[i]) \in Nat /\ ss[i] = Record(ts[i])
      BY <1>1, <1>2, RecordOf
    <2>2. i \in 1..Len(ss) /\ i \in 1..n + 1 /\ i + 1 \in 1..n + 1 /\ i + 1 - 1 = i /\ i - 1 \in 0..n
      BY <1>1, <1>2
    <2>3. /\ Len(Flat(ss, i)) = Len(Flat(ss, i - 1)) + Len(ss[i])
          /\ \A k \in 1..Len(ss[i]) : FlattenSeq(ss)[Len(Flat(ss, i - 1)) + k] = ss[i][k]
      BY <1>2, <2>2, InPlace
    <2>4. StartOf(ts, i) - type_off = Len(Flat(ss, i - 1)) /\ Len(Flat(ss, i - 1)) \in Nat
      BY <1>5, <1>7, <2>2 DEF type_off
    <2>5. StartOf(ts, i + 1) = StartOf(ts, i) + 3 + Extra(ts[i])
      <3>1. StartOf(ts, i + 1) = type_off + Len(Flat(ss, i)) /\ StartOf(ts, i) = type_off + Len(Flat(ss, i - 1))
        BY <1>5, <2>2
      <3> DEFINE x == Len(Flat(ss, i - 1))
                 y == Extra(ts[i])
                 u == StartOf(ts, i)
                 v == StartOf(ts, i + 1)
                 z == Len(Flat(ss, i))
      <3>2. x \in Nat /\ y \in Nat /\ z = x + (3 + y) /\ v = type_off + z /\ u = type_off + x
        <4>1. z = x + Len(ss[i])
          BY <2>3, Zenon
        <4>2. QED BY <2>1, <2>4, <3>1, <4>1, Zenon
      <3> HIDE DEF x, y, u, v, z
      <3>3. v = u + 3 + y
        BY <3>2 DEF type_off
      <3>4. QED BY <3>3 DEF u, v, y
    <2>6. QED BY <1>3, <2>1, <2>3, <2>4, <2>5
  <1>11. QED BY <1>7, <1>8, <1>9, <1>10

(* The types lie in order. *)
LEMMA StartsInOrder ==
    ASSUME NEW ts \in Seq(BtfType), NEW i \in 1..Len(ts) + 1, NEW j \in 1..Len(ts) + 1, i <= j
    PROVE  StartOf(ts, i) <= StartOf(ts, j)
  <1> DEFINE Bad == {k \in i..Len(ts) + 1 : ~(StartOf(ts, i) <= StartOf(ts, k))}
  <1>0. Len(ts) \in Nat /\ i \in Nat /\ j \in i..Len(ts) + 1 /\ \A k \in 1..Len(ts) : ts[k] \in BtfType
    OBVIOUS
  <1>1. Bad = {}
    <2>1. SUFFICES ASSUME Bad # {} PROVE FALSE
      OBVIOUS
    <2>2. Bad \subseteq Nat
      BY <1>0
    <2> HIDE DEF Bad
    <2>3. PICK k \in Bad : \A m \in Bad : k <= m
      BY <2>1, <2>2, Smallest
    <2>4. k \in i..Len(ts) + 1 /\ ~(StartOf(ts, i) <= StartOf(ts, k))
      BY DEF Bad
    <2>5. \A m \in 1..Len(ts) + 1 : StartOf(ts, m) \in Nat
      BY SectionIs
    <2>6. k # i
      BY <1>0, <2>4, <2>5
    <2>7. k - 1 \in 1..Len(ts) /\ k - 1 \in i..Len(ts) + 1 /\ ~(k <= k - 1) /\ (k - 1) + 1 = k
      BY <1>0, <2>4, <2>6
    <2>8. StartOf(ts, i) <= StartOf(ts, k - 1)
      BY <2>3, <2>7 DEF Bad
    <2>9. Extra(ts[k - 1]) \in Nat
      BY <1>0, <2>7, RecordOf
    <2>10. StartOf(ts, k) = StartOf(ts, k - 1) + 3 + Extra(ts[k - 1])
      BY <2>7, SectionIs
    <2>11. k \in 1..Len(ts) + 1 /\ k - 1 \in 1..Len(ts) + 1
      BY <1>0, <2>4, <2>7
    <2>12. QED BY <2>4, <2>5, <2>8, <2>9, <2>10, <2>11
  <1>2. QED BY <1>0, <1>1

-----------------------------------------------------------------------------
(* The reader stays within the file it has, so what it reads are words.    *)
Reads ==
    /\ BtfTypeOK
    /\ data \in Seq(Word) /\ cur >= type_off
    /\ \A i \in DOMAIN offsets : offsets[i] # 0 => offsets[i] >= type_off /\ offsets[i] + 3 <= size

LEMMA WordIs ==
    ASSUME Reads, NEW p \in Nat, p >= type_off, p < size
    PROVE  u32(p).lo \in Nat /\ u32(p).hi \in Nat
  <1>1. p - type_off + 1 \in 1..Len(data)
    BY DEF Reads, size, type_off
  <1>2. data[p - type_off + 1] \in Word
    BY <1>1 DEF Reads
  <1>3. QED
    BY <1>2 DEF u32, Word

LEMMA Powers == 2^16 \in Nat \ {0} /\ 2^24 \in Nat
  OBVIOUS

LEMMA RecordIs ==
    ASSUME Reads, NEW p \in Nat, p >= type_off, p + 3 <= size
    PROVE  vlen(p) \in Nat /\ extra_len(p) \in Nat
  <1>1. p + 1 \in Nat /\ p + 1 >= type_off /\ p + 1 < size
    BY DEF type_off, size, Reads
  <1>2. u32(p + 1).lo \in Nat
    BY <1>1, WordIs
  <1>3. vlen(p) \in Nat
    BY <1>2, Powers DEF vlen
  <1>4. QED
    BY <1>3 DEF extra_len

(* A walk that is at its beginning. *)
Starts ==
    /\ data \in Seq(Word) /\ end \in type_off..size
    /\ readable \in BOOLEAN /\ walk \in {"none", "walking", "done"}
    /\ goal \in [struct : Nat, field : Nat, typedef : Nat]
    /\ cur = type_off /\ offsets = <<0>> /\ result = Err

LEMMA StartReads == Starts => Reads
  <1> SUFFICES ASSUME Starts PROVE Reads
    OBVIOUS
  <1>1. type_off = 6 /\ size \in Nat
    BY DEF Starts, size, type_off
  <1>2. offsets \in Seq(0..size) /\ \A i \in DOMAIN offsets : offsets[i] = 0
    BY <1>1 DEF Starts
  <1>3. result.ok \in BOOLEAN /\ result.value \in Nat
    BY DEF Starts, Err
  <1>4. QED
    BY <1>1, <1>2, <1>3 DEF Starts, Reads, BtfTypeOK

LEMMA WalkReads ==
    ASSUME Reads, Walk
    PROVE  Reads'
  <1>0. /\ data \in Seq(Word) /\ Len(data) \in Nat /\ size = 6 + Len(data) /\ size \in Nat /\ type_off = 6
        /\ end \in 6..size /\ cur \in Nat /\ cur >= 6 /\ offsets \in Seq(0..size)
        /\ walk \in {"none", "walking", "done"}
    BY DEF Reads, BtfTypeOK, size, type_off
  <1>1. walk = "walking" /\ UNCHANGED <<readable, types, data, end, goal>> /\ size' = size
    BY DEF Walk, FieldFound, FieldMissing, Skip, Index, Resolve, file, size
  <1>2. ASSUME UNCHANGED <<cur, offsets>>, walk' = "done", result'.ok \in BOOLEAN, result'.value \in Nat
        PROVE  Reads'
    BY <1>1, <1>2 DEF Reads, BtfTypeOK
  <1>3. CASE FieldFound
    <2>1. PICK i \in Named(cur) : result' = Ok(bit_off(cur, u32(cur + 3 + 3 * i + 2)) \div 8)
      BY <1>3 DEF FieldFound
    <2>2. cur + 3 <= size /\ UNCHANGED <<cur, offsets>> /\ walk' = "done"
      BY <1>0, <1>3 DEF FieldFound
    <2>3. i \in Nat /\ cur + 3 + 3 * i + 2 < size
      <3>1. vlen(cur) \in Nat
        BY <1>0, <2>2, RecordIs
      <3>2. QED
        BY <2>1, <3>1 DEF Named, Readable
    <2>4. cur + 3 + 3 * i + 2 \in Nat /\ cur + 3 + 3 * i + 2 >= type_off
      BY <1>0, <2>3
    <2> DEFINE bits == u32(cur + 3 + 3 * i + 2)
    <2>5. bits.lo \in Nat /\ bits.hi \in Nat
      BY <2>3, <2>4, WordIs
    <2> HIDE DEF bits
    <2>6. bit_off(cur, bits) \in Nat
      BY <2>5, Powers DEF bit_off
    <2>7. bit_off(cur, bits) \div 8 \in Nat
      BY <2>6
    <2>8. result'.ok \in BOOLEAN /\ result'.value \in Nat
      BY <2>1, <2>7 DEF Ok, bits
    <2>9. QED
      BY <1>2, <2>2, <2>8
  <1>4. CASE FieldMissing
    BY <1>2, <1>4 DEF FieldMissing, Err
  <1>5. CASE Skip
    <2>1. cur + 3 <= size /\ cur' = cur + 3 + extra_len(cur) /\ UNCHANGED <<walk, offsets, result>>
      BY <1>0, <1>5 DEF Skip
    <2>2. extra_len(cur) \in Nat
      BY <1>0, <2>1, RecordIs
    <2>3. cur' \in Nat /\ cur' >= 6
      BY <1>0, <2>1, <2>2
    <2>4. QED
      BY <1>0, <1>1, <2>1, <2>3 DEF Reads, BtfTypeOK
  <1>6. CASE Index
    <2>1. cur + 3 <= size /\ cur' = cur + 3 + extra_len(cur) /\ offsets' = Append(offsets, cur)
          /\ UNCHANGED <<walk, result>>
      BY <1>0, <1>6 DEF Index
    <2>2. extra_len(cur) \in Nat
      BY <1>0, <2>1, RecordIs
    <2>3. cur' \in Nat /\ cur' >= 6
      BY <1>0, <2>1, <2>2
    <2>4. cur \in 0..size
      BY <1>0, <2>1
    <2>5. offsets' \in Seq(0..size)
      BY <1>0, <2>1, <2>4
    <2>6. \A i \in DOMAIN offsets' : offsets'[i] # 0 => offsets'[i] >= 6 /\ offsets'[i] + 3 <= size
      BY <1>0, <2>1 DEF Reads
    <2>7. QED
      BY <1>0, <1>1, <2>1, <2>3, <2>5, <2>6 DEF Reads, BtfTypeOK
  <1>7. CASE Resolve
    <2>1. UNCHANGED <<cur, offsets>> /\ walk' = "done"
      BY <1>7 DEF Resolve
    <2>2. ASSUME NEW at_, NEW kind_
          PROVE  referent(at_, kind_) # 0 => vlen(referent(at_, kind_)) \in Nat
      <3>1. referent(at_, kind_) # 0 =>
              \E id \in DOMAIN offsets : referent(at_, kind_) = offsets[id] /\ offsets[id] # 0
        BY DEF referent
      <3>2. ASSUME NEW id \in DOMAIN offsets, offsets[id] # 0
            PROVE  vlen(offsets[id]) \in Nat
        <4>1. offsets[id] \in Nat /\ offsets[id] >= type_off /\ offsets[id] + 3 <= size
          BY <1>0, <3>2 DEF Reads
        <4>2. QED
          BY <4>1, RecordIs
      <3>3. QED
        BY <3>1, <3>2
    <2>3. result' = Err \/ \E at_ : referent(at_, KIND_FUNC_PROTO) # 0
                                     /\ result' = Ok(vlen(referent(at_, KIND_FUNC_PROTO)))
      BY <1>7 DEF Resolve
    <2>4. result'.ok \in BOOLEAN /\ result'.value \in Nat
      <3>1. CASE result' = Err
        BY <3>1 DEF Err
      <3>2. ASSUME NEW v \in Nat, result' = Ok(v)
            PROVE  result'.ok \in BOOLEAN /\ result'.value \in Nat
        BY <3>2 DEF Ok
      <3>3. QED
        BY <2>2, <2>3, <3>1, <3>2
    <2>5. QED
      BY <1>2, <2>1, <2>4
  <1>8. QED
    BY <1>3, <1>4, <1>5, <1>6, <1>7 DEF Walk

LEMMA GoalIs ==
    ASSUME NEW s \in Nat \ {0}, s <= Len(Lookups)
    PROVE  Lookups[s] \in [struct : Nat, field : Nat, typedef : Nat]
  <1> DEFINE Goals == [struct : Nat, field : Nat, typedef : Nat]
  <1>1. \A a, b \in Nat : Field(a, b) \in Goals /\ Proto(a) \in Goals
    BY DEF Field, Proto
  <1> HIDE DEF Goals
  <1>2. Lookups \in Seq(Goals)
    BY <1>1 DEF Lookups, task_struct, pid, tgid, signal, signal_struct, live, cred, uid, __state, state,
        btf_trace_sched_switch
  <1>3. Lookups[s] \in Goals
    BY <1>2
  <1>4. QED
    BY <1>3 DEF Goals

LEMMA NextReads == Launched /\ Reads /\ [Next]_vars => Reads'
  <1> SUFFICES ASSUME Launched, Reads, [Next]_vars PROVE Reads'
    OBVIOUS
  <1>1. Starts' => Reads'
    <2>1. (Starts => Reads)'
      BY StartReads, PTL
    <2>2. QED
      BY <2>1
  <1>2. CASE UNCHANGED btf
    BY <1>2 DEF btf, file, Reads, BtfTypeOK, size
  <1>3. CASE Child(Truetop)
    <2>0. Truetop
      BY <1>3 DEF Child
    <2>1. CASE Parse \/ Detect \/ Load \/ attach_raw_tracepoint \/ attach_creds \/ Drop
      BY <1>2, <2>1 DEF Parse, Detect, Load, attach_raw_tracepoint, attach_creds, Drop
    <2>2. CASE Ask
      <3>1. UNCHANGED file /\ size' = size
        BY <2>2 DEF Ask, Lookup, file, size
      <3>2. Lookups[step] \in [struct : Nat, field : Nat, typedef : Nat]
        BY <2>2, GoalIs DEF Ask, Resolving, Launched
      <3>3. /\ walk' \in {"walking", "done"} /\ goal' = Lookups[step]
            /\ cur' = type_off /\ offsets' = <<0>> /\ result' = Err
        BY <2>2 DEF Ask, Lookup
      <3>4. Starts'
        BY <3>1, <3>2, <3>3 DEF Reads, BtfTypeOK, Starts, file
      <3>5. QED
        BY <3>4, <1>1
    <2>3. CASE WalkStep
      BY <2>3, WalkReads DEF WalkStep
    <2>4. CASE Answer \/ NoOffset
      BY <2>4 DEF Answer, NoOffset, file, Reads, BtfTypeOK, size
    <2>5. CASE TakeMaps
      <3>1. /\ readable' = FALSE /\ data' = <<>> /\ end' = type_off /\ walk' = "none"
            /\ goal' = Field(0, 0) /\ cur' = type_off /\ offsets' = <<0>> /\ result' = Err
        BY <2>5 DEF TakeMaps
      <3>2. Len(<<>>) = 0 /\ <<>> \in Seq(Word)
        OBVIOUS
      <3>3. size' = 6 /\ type_off = 6
        BY <3>1, <3>2 DEF size, type_off
      <3>4. Field(0, 0) \in [struct : Nat, field : Nat, typedef : Nat]
        BY DEF Field
      <3>5. data' \in Seq(Word)
        BY <3>1, <3>2, Zenon
      <3>6. end' \in type_off..size'
        BY <3>1, <3>3
      <3>7. readable' \in BOOLEAN /\ walk' \in {"none", "walking", "done"}
        BY <3>1
      <3>8. Starts'
        BY <3>1, <3>4, <3>5, <3>6, <3>7 DEF Starts
      <3>9. QED
        BY <3>8, <1>1
    <2>6. CASE Time \/ TickBegins \/ TickEnds \/ BenchEnds \/ UiEnds
      BY <1>2, <2>6 DEF Time, TickBegins, TickEnds, BenchEnds, UiEnds, Running
    <2>7. QED
      BY <2>0, <2>1, <2>2, <2>3, <2>4, <2>5, <2>6 DEF Truetop, TruetopWorks
  <1>4. CASE Works
    BY <1>2, <1>4 DEF Works, Dispatch, Build, Returned, RunSuite, RunPick, FetchFixture, ListEnds,
          BenchArgument, Prepare, Engage, Restore, truetop
  <1>5. CASE UNCHANGED vars
    BY <1>2, <1>5 DEF vars, truetop
  <1>6. QED
    BY <1>3, <1>4, <1>5 DEF Next

LEMMA InitReads == Init => Reads
  <1> SUFFICES ASSUME Init PROVE Reads
    OBVIOUS
  <1>1. PICK i \in Invocations : File(i.kernel) /\ NoWalk
    BY DEF Init
  <1> DEFINE whole == Section(i.kernel)
  <1>2. whole \in Seq(Word) /\ Len(whole) \in Nat
    <2>1. i.kernel \in Seq(BtfType)
      BY KernelsAssumption
    <2>2. whole \in Seq(Word)
      BY <2>1, SectionIs
    <2> HIDE DEF whole
    <2>3. QED BY <2>2
  <1> HIDE DEF whole
  <1>3. readable \in BOOLEAN /\ data \in Seq(Word) /\ end \in type_off..size
    <2>1. CASE readable = FALSE /\ data = <<>> /\ end = type_off
      <3>1. Len(<<>>) = 0 /\ <<>> \in Seq(Word)
        OBVIOUS
      <3>2. data \in Seq(Word) /\ Len(data) = 0
        BY <2>1, <3>1, Zenon
      <3>3. size = 6 /\ type_off = 6
        BY <3>2 DEF size, type_off
      <3>4. readable = FALSE /\ end = type_off
        BY <2>1, Zenon
      <3>5. readable \in BOOLEAN
        BY <3>4, Zenon
      <3>6. 6 \in 6..6 /\ end = 6 /\ size = 6 /\ type_off = 6
        BY <3>3, <3>4
      <3>7. end \in type_off..size
        BY <3>6
      <3>8. QED
        BY <3>2, <3>5, <3>7
    <2>2. ASSUME readable = TRUE, NEW n \in 0..Len(whole),
                 \/ data = SubSeq(whole, 1, n) /\ end = type_off + n
                 \/ data = whole /\ end = type_off + n
          PROVE  readable \in BOOLEAN /\ data \in Seq(Word) /\ end \in type_off..size
      <3>1. SubSeq(whole, 1, n) \in Seq(Word) /\ Len(SubSeq(whole, 1, n)) = n
        BY <1>2
      <3>2. data \in Seq(Word) /\ n <= Len(data) /\ end = type_off + n /\ Len(data) \in Nat
        BY <1>2, <2>2, <3>1
      <3>3. QED
        BY <2>2, <3>2 DEF size, type_off
    <2>3. QED
      BY <1>1, <2>1, <2>2 DEF File, whole
  <1>4. Field(0, 0) \in [struct : Nat, field : Nat, typedef : Nat]
    BY DEF Field
  <1>5. Starts
    BY <1>1, <1>3, <1>4 DEF NoWalk, Starts
  <1>6. QED
    BY <1>5, StartReads

LEMMA ReadsHolds == Spec => []Reads
  BY InitReads, NextReads, LaunchedHolds, PTL DEF Spec

-----------------------------------------------------------------------------
(* Of the file that is read there is a beginning of its types' section.    *)
Cut ==
    /\ types \in Seq(BtfType)
    /\ readable => /\ Len(data) <= Len(Section(types))
                   /\ \A k \in 1..Len(data) : data[k] = Section(types)[k]

LEMMA FirstIs ==
    ASSUME NEW S, S \subseteq Nat, S # {}
    PROVE  First(S) \in S /\ \A k \in S : First(S) <= k
  <1>1. \E m \in S : \A k \in S : m <= k
    BY Smallest
  <1>2. QED BY <1>1 DEF First

(* A word of the file is the word of the record there. *)
LEMMA WordAt ==
    ASSUME Reads, Cut, readable, NEW i \in 1..Len(types), NEW k \in Nat,
           k < 3 + Extra(types[i]), StartOf(types, i) + k < size
    PROVE  u32(StartOf(types, i) + k) = Record(types[i])[k + 1]
  <1> DEFINE s == StartOf(types, i)
             t == types[i]
             n == s - type_off + (k + 1)
  <1>1. types \in Seq(BtfType) /\ Len(types) \in Nat /\ t \in BtfType /\ i \in 1..Len(types) + 1
    BY DEF Cut
  <1>2. \A j \in 1..Len(types) + 1 : StartOf(types, j) \in Nat /\ StartOf(types, 1) <= StartOf(types, j)
    <2>1. \A j \in 1..Len(types) + 1 : StartOf(types, j) \in Nat
      BY <1>1, SectionIs
    <2>2. ASSUME NEW j \in 1..Len(types) + 1 PROVE StartOf(types, 1) <= StartOf(types, j)
      <3>1. 1 \in 1..Len(types) + 1 /\ 1 <= j
        BY <1>1
      <3>2. QED BY <1>1, <3>1, StartsInOrder
    <2>3. QED BY <2>1, <2>2
  <1>3. s \in Nat /\ s >= type_off
    <2>1. StartOf(types, 1) = type_off
      BY <1>1, SectionIs
    <2>2. QED BY <1>1, <1>2, <2>1
  <1>4. Extra(t) \in Nat
    BY <1>1, RecordOf
  <1>5. Section(types)[n] = Record(t)[k + 1]
    <2>1. k + 1 \in 1..3 + Extra(t)
      BY <1>4
    <2>2. QED BY <1>1, <2>1, SectionIs
  <1> HIDE DEF s, t
  <1>6. s + k < size /\ data \in Seq(Word)
    BY DEF s, Reads
  <1>7. n \in 1..Len(data) /\ (s + k) - type_off + 1 = n
    BY <1>3, <1>6 DEF size, type_off
  <1>8. data[n] = Section(types)[n]
    BY <1>7 DEF Cut
  <1>9. u32(s + k) = data[n]
    <2> HIDE DEF n
    <2>1. QED BY <1>7 DEF u32
  <1>10. QED BY <1>5, <1>8, <1>9 DEF s, t

(* The header of a record that is wholly there, and where the next begins. *)
LEMMA HeaderAt ==
    ASSUME Reads, Cut, readable, NEW i \in 1..Len(types), StartOf(types, i) + 3 <= size
    PROVE  /\ kind(StartOf(types, i)) = types[i].kind /\ type_name(StartOf(types, i)) = types[i].name
           /\ vlen(StartOf(types, i)) = Len(types[i].parts) /\ kflag(StartOf(types, i)) = types[i].kflag
           /\ u32(StartOf(types, i) + 2).lo = types[i].type
           /\ StartOf(types, i) + 3 + extra_len(StartOf(types, i)) = StartOf(types, i + 1)
  <1> DEFINE s == StartOf(types, i)
             t == types[i]
  <1>1. types \in Seq(BtfType) /\ t \in BtfType /\ i \in 1..Len(types) + 1
    BY DEF Cut
  <1>2. s \in Nat /\ Extra(t) \in Nat
    BY <1>1, SectionIs, RecordOf
  <1>3. u32(s) = Record(t)[1] /\ u32(s + 1) = Record(t)[2] /\ u32(s + 2) = Record(t)[3]
    <2>0. size \in Nat
      BY DEF size, type_off, Reads
    <2>1. \A k \in {0, 1, 2} : k \in Nat /\ k < 3 + Extra(t) /\ s + k < size
      BY <1>2, <2>0
    <2>2. \A k \in {0, 1, 2} : u32(s + k) = Record(t)[k + 1]
      BY <2>1, WordAt
    <2>3. s + 0 = s /\ 0 + 1 = 1 /\ 1 + 1 = 2 /\ 2 + 1 = 3
      BY <1>2
    <2>4. u32(s + 0) = Record(t)[0 + 1] /\ u32(s + 1) = Record(t)[1 + 1] /\ u32(s + 2) = Record(t)[2 + 1]
      BY <2>2
    <2>5. QED BY <2>3, <2>4
  <1>4. /\ kind(s) = t.kind /\ type_name(s) = t.name /\ vlen(s) = Len(t.parts) /\ kflag(s) = t.kflag
        /\ u32(s + 2).lo = t.type
    BY <1>1, <1>3, RecordOf DEF kind, type_name, vlen, kflag
  <1>5. extra_len(s) = Extra(t)
    <2>1. CASE t.kind \in {KIND_INT, KIND_VAR, KIND_DECL_TAG, KIND_ARRAY}
      BY <1>4, <2>1 DEF extra_len, Extra, KIND_INT, KIND_VAR, KIND_DECL_TAG, KIND_ARRAY
    <2>2. CASE t.kind \in {KIND_STRUCT, KIND_UNION, KIND_DATASEC, KIND_ENUM64}
      <3>1. t.kind \notin {KIND_INT, KIND_VAR, KIND_DECL_TAG, KIND_ARRAY, KIND_ENUM, KIND_FUNC_PROTO}
        BY <2>2 DEF KIND_INT, KIND_VAR, KIND_DECL_TAG, KIND_ARRAY,
           KIND_STRUCT, KIND_UNION, KIND_DATASEC, KIND_ENUM64, KIND_ENUM, KIND_FUNC_PROTO
      <3>2. Extra(t) = 3 * Len(t.parts)
        BY <3>1 DEF Extra, PartLen
      <3>3. extra_len(s) = 3 * vlen(s)
        BY <1>4, <2>2, <3>1 DEF extra_len
      <3>4. QED BY <1>4, <3>2, <3>3, Zenon
    <2>3. CASE t.kind \in {KIND_ENUM, KIND_FUNC_PROTO}
      <3>1. t.kind \notin {KIND_INT, KIND_VAR, KIND_DECL_TAG, KIND_ARRAY,
                           KIND_STRUCT, KIND_UNION, KIND_DATASEC, KIND_ENUM64}
        BY <2>3 DEF KIND_INT, KIND_VAR, KIND_DECL_TAG, KIND_ARRAY,
           KIND_STRUCT, KIND_UNION, KIND_DATASEC, KIND_ENUM64, KIND_ENUM, KIND_FUNC_PROTO
      <3>2. Extra(t) = 2 * Len(t.parts)
        BY <2>3, <3>1 DEF Extra, PartLen
      <3>3. extra_len(s) = 2 * vlen(s)
        BY <1>4, <2>3, <3>1 DEF extra_len
      <3>4. QED BY <1>4, <3>2, <3>3, Zenon
    <2>4. CASE t.kind \notin {KIND_INT, KIND_VAR, KIND_DECL_TAG, KIND_ARRAY, KIND_STRUCT, KIND_UNION, KIND_DATASEC,
                              KIND_ENUM64, KIND_ENUM, KIND_FUNC_PROTO}
      <3>1. t.parts = <<>>
        BY <1>1, <2>4 DEF BtfType
      <3>2. Len(t.parts) = 0
        BY <3>1
      <3>3. Extra(t) = 0
        BY <2>4, <3>2 DEF Extra, PartLen
      <3>4. extra_len(s) = 0
        BY <1>4, <2>4 DEF extra_len
      <3>5. QED BY <3>3, <3>4
    <2>5. QED BY <2>1, <2>2, <2>3, <2>4
  <1>6. StartOf(types, i + 1) = s + 3 + Extra(t)
    BY <1>1, SectionIs
  <1>7. QED BY <1>4, <1>5, <1>6

(* The j-th member of a struct, as far as it is there. *)
LEMMA MemberAt ==
    ASSUME Reads, Cut, readable, NEW i \in 1..Len(types), types[i].kind = KIND_STRUCT,
           NEW j \in 1..Len(types[i].parts), StartOf(types, i) + 3 * j + 2 < size
    PROVE  /\ u32(StartOf(types, i) + 3 * j).lo = types[i].parts[j].name
           /\ bit_off(StartOf(types, i), u32(StartOf(types, i) + 3 * j + 2)) = types[i].parts[j].bits
  <1> DEFINE s == StartOf(types, i)
             t == types[i]
             p == t.parts[j]
  <1>1. types \in Seq(BtfType) /\ t \in BtfType /\ i \in 1..Len(types) + 1
    BY DEF Cut
  <1>2. s \in Nat /\ Extra(t) \in Nat
    BY <1>1, SectionIs, RecordOf
  <1>3. Len(t.parts) \in Nat /\ p \in BtfPart /\ t.kflag \in {0, 1}
    BY <1>1 DEF BtfType
  <1>4. Extra(t) = 3 * Len(t.parts)
    BY DEF Extra, PartLen, KIND_INT, KIND_VAR, KIND_DECL_TAG, KIND_ARRAY, KIND_ENUM, KIND_FUNC_PROTO, KIND_STRUCT
  <1>5. /\ 3 * j \in Nat /\ 3 * j < 3 + Extra(t) /\ s + 3 * j < size /\ 3 * j + 1 = 3 + 3 * (j - 1) + 1
        /\ 3 * j + 2 \in Nat /\ 3 * j + 2 < 3 + Extra(t) /\ s + (3 * j + 2) < size /\ 3 * j + 2 + 1 = 3 + 3 * (j - 1) + 3
        /\ s + 3 * j + 2 = s + (3 * j + 2) /\ s + 3 <= size
    <2>1. size \in Nat
      BY DEF size, type_off, Reads
    <2>2. j \in Nat /\ j >= 1 /\ j <= Len(t.parts) /\ s + 3 * j + 2 < size
      BY <1>3
    <2> HIDE DEF s, t
    <2>3. QED BY <1>2, <1>3, <1>4, <2>1, <2>2
  <1>6. u32(s + 3 * j) = Record(t)[3 * j + 1]
    BY <1>5, WordAt
  <1>7. u32(s + (3 * j + 2)) = Record(t)[3 * j + 2 + 1]
    BY <1>5, WordAt
  <1>8. /\ Record(t)[3 + 3 * (j - 1) + 1].lo = p.name
        /\ Record(t)[3 + 3 * (j - 1) + 3].lo = p.bits
        /\ t.kflag = 0 => Record(t)[3 + 3 * (j - 1) + 3].hi = 0
    BY <1>1, RecordOf
  <1>9. kflag(s) = t.kflag
    BY <1>5, HeaderAt
  <1>10. p.bits \in Nat /\ 2^24 \in Nat
    BY <1>3 DEF BtfPart
  <1>11. u32(s + 3 * j).lo = p.name
    BY <1>5, <1>6, <1>8
  <1> DEFINE w == u32(s + 3 * j + 2)
  <1>12. w.lo = p.bits /\ (t.kflag = 0 => w.hi = 0)
    BY <1>5, <1>7, <1>8
  <1> HIDE DEF w
  <1>13. bit_off(s, w) = p.bits
    <2> HIDE DEF s, t, p
    <2>1. CASE t.kflag = 1
      BY <1>9, <1>12, <2>1 DEF bit_off
    <2>2. CASE t.kflag = 0
      <3>1. bit_off(s, w) = w.lo + w.hi * 2^24
        BY <1>9, <2>2 DEF bit_off
      <3>2. p.bits + 0 * 2^24 = p.bits
        BY <1>10
      <3>3. QED BY <1>12, <2>2, <3>1, <3>2
    <2>3. QED BY <1>3, <2>1, <2>2 DEF t
  <1>14. QED BY <1>11, <1>13 DEF w

-----------------------------------------------------------------------------
(* A walk is at the i-th type, and none before it was the struct; or their *)
(* positions are all there, by type id.                                    *)
Passed(i) == \A j \in 1..i - 1 : ~(types[j].kind = KIND_STRUCT /\ types[j].name = goal.struct)
Indexed(i) ==
    /\ Len(offsets) = i /\ offsets[1] = 0
    /\ \A j \in 1..i - 1 : offsets[j + 1] = StartOf(types, j) /\ StartOf(types, j) + 3 <= end
Ahead(i) ==
    /\ i \in 1..Len(types) + 1 /\ cur = StartOf(types, i)
    /\ IF OfField THEN Passed(i) ELSE Indexed(i)

Looks ==
    /\ walk = "walking" => readable /\ \E i \in Nat : Ahead(i)
    /\ walk = "done" => LookupIsRight /\ (~readable => ~result.ok)

Begins ==
    /\ Cut /\ readable \in BOOLEAN /\ walk = IF readable THEN "walking" ELSE "done"
    /\ cur = type_off /\ offsets = <<0>> /\ result = Err

LEMMA BeginLooks == Begins => Looks
  <1> SUFFICES ASSUME Begins PROVE Looks
    OBVIOUS
  <1>1. Ahead(1)
    <2>1. Len(types) \in Nat /\ StartOf(types, 1) = type_off
      BY SectionIs DEF Begins, Cut
    <2>2. Passed(1) /\ Indexed(1)
      BY DEF Begins, Passed, Indexed
    <2>3. QED BY <2>1, <2>2 DEF Begins, Ahead
  <1>2. QED BY <1>1 DEF Begins, Looks, LookupIsRight, Err

(* The bounds that a record in the section keeps. *)
LEMMA InSection ==
    ASSUME Reads, Cut, readable
    PROVE  /\ end \in Nat /\ size \in Nat /\ end <= size /\ type_off <= end
           /\ size <= StartOf(types, Len(types) + 1)
           /\ \A i \in 1..Len(types) + 1 : StartOf(types, i) \in Nat
           /\ \A i \in 1..Len(types) + 1 : StartOf(types, i) + 3 <= end => i \in 1..Len(types)
  <1>1. data \in Seq(Word) /\ Len(data) \in Nat /\ size = 6 + Len(data) /\ type_off = 6 /\ end \in 6..size
    BY DEF Reads, BtfTypeOK, size, type_off
  <1>2. types \in Seq(BtfType) /\ Len(types) \in Nat /\ Len(data) <= Len(Section(types))
    BY DEF Cut
  <1>3. /\ Section(types) \in Seq(Word) /\ StartOf(types, Len(types) + 1) = type_off + Len(Section(types))
        /\ \A i \in 1..Len(types) + 1 : StartOf(types, i) \in Nat
    BY <1>2, SectionIs
  <1>4. size <= StartOf(types, Len(types) + 1)
    <2>1. Len(Section(types)) \in Nat
      BY <1>3
    <2>2. QED BY <1>1, <1>2, <1>3, <2>1
  <1>5. ASSUME NEW i \in 1..Len(types) + 1, StartOf(types, i) + 3 <= end
        PROVE  i \in 1..Len(types)
    <2>1. i # Len(types) + 1
      BY <1>1, <1>3, <1>4, <1>5
    <2>2. QED BY <1>2, <2>1
  <1>6. QED BY <1>1, <1>3, <1>4, <1>5

LEMMA SkipLooks ==
    ASSUME Reads, Cut, Looks, Skip
    PROVE  Looks'
  <1>1. PICK i \in Nat : Ahead(i)
    BY DEF Skip, Looks
  <1>2. /\ readable /\ walk' = "walking" /\ OfField /\ cur + 3 <= end /\ cur' = cur + 3 + extra_len(cur)
        /\ UNCHANGED <<readable, types, data, end, goal>> /\ ~AtStruct
    BY DEF Skip, Looks, file
  <1>3. i \in 1..Len(types) /\ cur = StartOf(types, i) /\ cur + 3 <= size /\ cur \in Nat /\ Passed(i) /\ Len(types) \in Nat
    <2>1. i \in 1..Len(types) + 1 /\ cur = StartOf(types, i) /\ Passed(i) /\ Len(types) \in Nat
      BY <1>1, <1>2 DEF Ahead, Cut
    <2>2. end \in Nat /\ size \in Nat /\ end <= size /\ cur \in Nat /\ i \in 1..Len(types)
      BY <1>2, <2>1, InSection
    <2>3. QED BY <1>2, <2>1, <2>2
  <1>4. kind(cur) = types[i].kind /\ type_name(cur) = types[i].name /\ cur' = StartOf(types, i + 1)
    BY <1>2, <1>3, HeaderAt
  <1>5. Passed(i + 1)
    <2>1. ~(types[i].kind = KIND_STRUCT /\ types[i].name = goal.struct)
      BY <1>2, <1>4 DEF AtStruct
    <2>2. \A j \in 1..i + 1 - 1 : j = i \/ j \in 1..i - 1
      BY <1>3
    <2>3. QED BY <1>3, <2>1, <2>2 DEF Passed
  <1>6. i + 1 \in Nat /\ i + 1 \in 1..Len(types) + 1
    BY <1>3
  <1> DEFINE n == i + 1
  <1> HIDE DEF n
  <1>7. Ahead(n)'
    <2>1. n \in 1..Len(types)' + 1 /\ cur' = StartOf(types', n) /\ OfField'
      BY <1>2, <1>4, <1>6 DEF n, OfField
    <2>2. Passed(n)'
      BY <1>2, <1>5 DEF n, Passed
    <2>3. QED BY <2>1, <2>2 DEF Ahead, StartOf
  <1>8. n \in Nat
    BY <1>6 DEF n
  <1>9. QED BY <1>2, <1>7, <1>8 DEF Looks

LEMMA IndexLooks ==
    ASSUME Reads, Cut, Looks, Index
    PROVE  Looks'
  <1>1. PICK i \in Nat : Ahead(i)
    BY DEF Index, Looks
  <1>2. /\ readable /\ walk' = "walking" /\ ~OfField /\ cur + 3 <= end /\ cur' = cur + 3 + extra_len(cur)
        /\ UNCHANGED <<readable, types, data, end, goal>> /\ offsets' = Append(offsets, cur)
    BY DEF Index, Looks, file
  <1>3. /\ i \in 1..Len(types) /\ cur = StartOf(types, i) /\ cur + 3 <= size /\ cur \in Nat /\ Indexed(i)
        /\ Len(types) \in Nat
    <2>1. i \in 1..Len(types) + 1 /\ cur = StartOf(types, i) /\ Indexed(i) /\ Len(types) \in Nat
      BY <1>1, <1>2 DEF Ahead, Cut
    <2>2. end \in Nat /\ size \in Nat /\ end <= size /\ cur \in Nat /\ i \in 1..Len(types)
      BY <1>2, <2>1, InSection
    <2>3. QED BY <1>2, <2>1, <2>2
  <1>4. cur' = StartOf(types, i + 1)
    BY <1>2, <1>3, HeaderAt
  <1> DEFINE n == i + 1
  <1>5. n \in Nat /\ n \in 1..Len(types) + 1
    BY <1>3
  <1>6. /\ Len(offsets') = n /\ offsets'[1] = 0
        /\ \A j \in 1..n - 1 : offsets'[j + 1] = StartOf(types, j) /\ StartOf(types, j) + 3 <= end
    <2>1. offsets \in Seq(0..size) /\ Len(offsets) = i /\ i >= 1
      BY <1>3 DEF Reads, BtfTypeOK, Indexed
    <2>2. Len(offsets') = i + 1 /\ offsets'[i + 1] = cur /\ \A j \in 1..i : offsets'[j] = offsets[j]
      BY <1>2, <2>1
    <2>3. ASSUME NEW j \in 1..n - 1
          PROVE  offsets'[j + 1] = StartOf(types, j) /\ StartOf(types, j) + 3 <= end
      <3>1. j = i \/ (j \in 1..i - 1 /\ j + 1 \in 1..i)
        BY <1>3
      <3>2. CASE j = i
        BY <1>2, <1>3, <2>2, <3>2
      <3>3. CASE j \in 1..i - 1 /\ j + 1 \in 1..i
        BY <1>3, <2>2, <3>3 DEF Indexed
      <3>4. QED BY <3>1, <3>2, <3>3
    <2>4. offsets'[1] = 0
      BY <1>3, <2>1, <2>2 DEF Indexed
    <2>5. QED BY <2>2, <2>3, <2>4
  <1>7. cur' = StartOf(types, n)
    BY <1>4
  <1> HIDE DEF n
  <1>8. Ahead(n)'
    <2>1. n \in 1..Len(types)' + 1 /\ cur' = StartOf(types', n) /\ ~OfField'
      BY <1>2, <1>5, <1>7 DEF OfField
    <2>2. Indexed(n)'
      BY <1>2, <1>6 DEF Indexed, StartOf
    <2>3. QED BY <2>1, <2>2 DEF Ahead, StartOf
  <1>9. QED BY <1>2, <1>5, <1>8 DEF Looks

-----------------------------------------------------------------------------
(* field_offset's answer, found or missing. *)
LEMMA StructIsFirst ==
    ASSUME Cut, NEW i \in 1..Len(types), Passed(i)
    PROVE  /\ Structs(goal.struct) \subseteq Nat
           /\ \A j \in Structs(goal.struct) : j >= i
           /\ types[i].kind = KIND_STRUCT /\ types[i].name = goal.struct => First(Structs(goal.struct)) = i
  <1>1. Len(types) \in Nat /\ DOMAIN types = 1..Len(types)
    BY DEF Cut
  <1>2. Structs(goal.struct) \subseteq Nat /\ \A j \in Structs(goal.struct) : j >= i
    BY <1>1 DEF Structs, Passed
  <1>3. ASSUME types[i].kind = KIND_STRUCT, types[i].name = goal.struct
        PROVE  First(Structs(goal.struct)) = i
    <2>1. i \in Structs(goal.struct)
      BY <1>1, <1>3 DEF Structs
    <2>2. First(Structs(goal.struct)) \in Structs(goal.struct) /\ First(Structs(goal.struct)) <= i
      BY <1>2, <2>1, FirstIs
    <2>3. QED BY <1>2, <2>2
  <1>4. QED BY <1>2, <1>3

LEMMA FoundField ==
    ASSUME Reads, Cut, readable, NEW i \in Nat, Ahead(i), FieldFound
    PROVE  FieldIs(goal.struct, goal.field, result'.value) /\ result'.ok
  <1>1. i \in 1..Len(types) + 1 /\ cur = StartOf(types, i) /\ cur + 3 <= end /\ AtStruct /\ Passed(i)
    BY DEF FieldFound, Ahead
  <1>2. i \in 1..Len(types) /\ cur \in Nat /\ cur + 3 <= size /\ end <= size /\ end \in Nat /\ size \in Nat
    BY <1>1, InSection
  <1>3. PICK m \in Named(cur) :
              (\A j \in Named(cur) : m <= j) /\ result' = Ok(bit_off(cur, u32(cur + 3 + 3 * m + 2)) \div 8)
    BY DEF FieldFound
  <1> DEFINE t == types[i]
             n == m + 1
  <1>4. types[i].kind = KIND_STRUCT /\ types[i].name = goal.struct /\ vlen(cur) = Len(t.parts)
    BY <1>1, <1>2, HeaderAt DEF AtStruct
  <1>5. t \in BtfType /\ t.parts \in Seq(BtfPart) /\ Len(t.parts) \in Nat /\ DOMAIN t.parts = 1..Len(t.parts)
    <2>1. t \in BtfType
      BY <1>2 DEF Cut
    <2>2. QED BY <2>1 DEF BtfType
  <1>6. First(Structs(goal.struct)) = i /\ Structs(goal.struct) # {}
    <2>1. i \in Structs(goal.struct)
      BY <1>2, <1>4 DEF Structs, Cut
    <2>2. QED BY <1>1, <1>2, <1>4, <2>1, StructIsFirst
  <1>7. \A j \in Named(cur) : j \in 0..Len(t.parts) - 1
    BY <1>4 DEF Named
  <1>8. ASSUME NEW j \in 0..Len(t.parts) - 1
        PROVE  /\ cur + 3 + 3 * j + 2 = cur + 3 * (j + 1) + 2 /\ cur + 3 + 3 * j = cur + 3 * (j + 1)
               /\ j + 1 \in 1..Len(t.parts)
    <2> DEFINE many == Len(t.parts)
    <2>1. many \in Nat /\ j \in 0..many - 1
      BY <1>5
    <2> HIDE DEF many
    <2>2. /\ cur + 3 + 3 * j + 2 = cur + 3 * (j + 1) + 2 /\ cur + 3 + 3 * j = cur + 3 * (j + 1)
          /\ j + 1 \in 1..many
      BY <1>2, <2>1
    <2>3. QED BY <2>2 DEF many
  <1>9. m \in 0..Len(t.parts) - 1 /\ cur + 3 + 3 * m + 2 < size /\ u32(cur + 3 + 3 * m).lo = goal.field
    BY <1>7 DEF Named, Readable
  <1>10. n \in 1..Len(t.parts) /\ cur + 3 * n + 2 < size
    BY <1>8, <1>9
  <1> HIDE DEF n
  <1>11. u32(cur + 3 * n).lo = t.parts[n].name /\ bit_off(cur, u32(cur + 3 * n + 2)) = t.parts[n].bits
    BY <1>1, <1>2, <1>4, <1>10, MemberAt
  <1>12. t.parts[n].name = goal.field /\ result' = Ok(t.parts[n].bits \div 8)
    BY <1>3, <1>8, <1>9, <1>11 DEF n
  <1>13. ASSUME NEW j \in 1..Len(t.parts), t.parts[j].name = goal.field
         PROVE  n <= j
    <2>1. CASE j > n
      BY <1>5, <1>10, <2>1
    <2>2. CASE j <= n
      <3>1. cur + 3 * j + 2 < size
        BY <1>2, <1>5, <1>10, <2>2
      <3>2. u32(cur + 3 * j).lo = goal.field
        BY <1>1, <1>2, <1>4, <1>13, <3>1, MemberAt
      <3>3. j - 1 \in 0..Len(t.parts) - 1 /\ (j - 1) + 1 = j
        BY <1>5
      <3>4. j - 1 \in Named(cur)
        <4>1. cur + 3 + 3 * (j - 1) + 2 < size /\ u32(cur + 3 + 3 * (j - 1)).lo = goal.field
          BY <1>8, <3>1, <3>2, <3>3
        <4>2. QED BY <1>4, <3>3, <4>1 DEF Named, Readable
      <3>5. m <= j - 1 /\ m \in Nat
        BY <1>3, <1>9, <3>4
      <3>6. QED BY <1>5, <3>5 DEF n
    <2>3. QED BY <1>5, <1>10, <2>1, <2>2
  <1>14. First(Fields(t, goal.field)) = n /\ Fields(t, goal.field) # {}
    <2>1. Fields(t, goal.field) \subseteq Nat /\ n \in Fields(t, goal.field) /\ \A j \in Fields(t, goal.field) : n <= j
      BY <1>5, <1>10, <1>12, <1>13 DEF Fields
    <2>2. First(Fields(t, goal.field)) \in Fields(t, goal.field) /\ First(Fields(t, goal.field)) <= n
      BY <2>1, FirstIs
    <2>3. QED BY <1>10, <2>1, <2>2
  <1>15. QED BY <1>6, <1>12, <1>14 DEF FieldIs, Ok

LEMMA MissingField ==
    ASSUME Reads, Cut, readable, NEW i \in Nat, Ahead(i), FieldMissing, Structs(goal.struct) # {}
    PROVE  \/ EndOf(types, First(Structs(goal.struct))) > end
           \/ Fields(types[First(Structs(goal.struct))], goal.field) = {}
  <1>1. i \in 1..Len(types) + 1 /\ cur = StartOf(types, i) /\ Passed(i)
    BY DEF FieldMissing, Ahead
  <1>2. /\ cur \in Nat /\ end <= size /\ end \in Nat /\ size \in Nat /\ Len(types) \in Nat
        /\ \A j \in 1..Len(types) + 1 : StartOf(types, j) \in Nat
        /\ cur + 3 <= end => i \in 1..Len(types)
    BY <1>1, InSection DEF Cut
  <1> DEFINE f == First(Structs(goal.struct))
  <1>3. /\ f \in Structs(goal.struct) /\ f \in 1..Len(types) /\ f >= i
        /\ i # Len(types) + 1
    <2>1. Structs(goal.struct) \subseteq 1..Len(types) /\ DOMAIN types = 1..Len(types)
      BY DEF Structs, Cut
    <2>2. f \in Structs(goal.struct)
      BY <2>1, FirstIs
    <2>3. \A j \in Structs(goal.struct) : j >= i
      BY <1>1, <1>2, <2>1 DEF Structs, Passed
    <2>4. QED BY <1>2, <2>1, <2>2, <2>3
  <1>4. CASE cur + 3 > end
    <2>1. StartOf(types, f + 1) = StartOf(types, f) + 3 + Extra(types[f]) /\ Extra(types[f]) \in Nat
      <3>1. types[f] \in BtfType
        BY <1>3 DEF Cut
      <3>2. QED BY <1>3, <3>1, SectionIs, RecordOf DEF Cut
    <2>2. cur <= StartOf(types, f)
      <3>1. f \in 1..Len(types) + 1 /\ i <= f
        BY <1>1, <1>2, <1>3
      <3>2. QED BY <1>1, <3>1, StartsInOrder DEF Cut
    <2>3. StartOf(types, f) \in Nat
      BY <1>2, <1>3
    <2>4. EndOf(types, f) > end
      BY <1>2, <1>4, <2>1, <2>2, <2>3 DEF EndOf
    <2>5. QED BY <2>4
  <1>5. CASE cur + 3 <= end /\ AtStruct /\ Named(cur) = {}
    <2> DEFINE t == types[i]
    <2>1. i \in 1..Len(types) /\ cur + 3 <= size
      BY <1>2, <1>5
    <2>2. t.kind = KIND_STRUCT /\ t.name = goal.struct /\ vlen(cur) = Len(t.parts)
      BY <1>1, <1>5, <2>1, HeaderAt DEF AtStruct
    <2>3. f = i
      BY <1>1, <2>1, <2>2, StructIsFirst
    <2>4. t \in BtfType /\ t.parts \in Seq(BtfPart) /\ Len(t.parts) \in Nat /\ DOMAIN t.parts = 1..Len(t.parts)
      <3>1. t \in BtfType
        BY <2>1 DEF Cut
      <3>2. QED BY <3>1 DEF BtfType
    <2>5. EndOf(types, i) = cur + 3 + 3 * Len(t.parts)
      <3>1. Extra(t) = 3 * Len(t.parts)
        BY <2>2 DEF Extra, PartLen, KIND_INT, KIND_VAR, KIND_DECL_TAG, KIND_ARRAY, KIND_ENUM, KIND_FUNC_PROTO, KIND_STRUCT
      <3>2. QED BY <1>1, <2>1, <3>1, SectionIs DEF EndOf, Cut
    <2>6. ASSUME NEW j \in 1..Len(t.parts), t.parts[j].name = goal.field, ~(EndOf(types, i) > end)
          PROVE  FALSE
      <3>1. cur + 3 * j + 2 < size
        <4> DEFINE n == Len(t.parts)
        <4>1. ~(cur + 3 + 3 * n > end) /\ n \in Nat /\ j \in 1..n
          BY <2>4, <2>5, <2>6
        <4> HIDE DEF n
        <4>2. QED BY <1>2, <4>1
      <3>2. u32(cur + 3 * j).lo = goal.field
        BY <1>1, <2>1, <2>2, <2>6, <3>1, MemberAt
      <3>3. j - 1 \in 0..Len(t.parts) - 1 /\ cur + 3 + 3 * (j - 1) = cur + 3 * j /\ cur + 3 + 3 * (j - 1) + 2 = cur + 3 * j + 2
        BY <1>2, <2>4
      <3>4. j - 1 \in Named(cur)
        BY <2>2, <3>1, <3>2, <3>3 DEF Named, Readable
      <3>5. QED BY <1>5, <3>4
    <2>7. QED BY <2>3, <2>4, <2>6 DEF Fields
  <1>6. QED BY <1>4, <1>5 DEF FieldMissing

-----------------------------------------------------------------------------
(* tracepoint_proto_params' answer: where the types it has indexed lie, and*)
(* the two records the typedef leads to.                                   *)
LEMMA IndexedAt ==
    ASSUME Reads, Cut, readable, NEW i \in 1..Len(types) + 1, Indexed(i)
    PROVE  /\ DOMAIN offsets = 1..i
           /\ \A j \in 1..i - 1 :
                 /\ j \in 1..Len(types) /\ j \in Nat /\ offsets[j + 1] = StartOf(types, j) /\ offsets[j + 1] # 0
                 /\ kind(offsets[j + 1]) = types[j].kind /\ type_name(offsets[j + 1]) = types[j].name
                 /\ vlen(offsets[j + 1]) = Len(types[j].parts) /\ u32(offsets[j + 1] + 2).lo = types[j].type
                 /\ types[j].type \in Nat
  <1>1. Len(types) \in Nat /\ offsets \in Seq(0..size) /\ Len(offsets) = i /\ DOMAIN offsets = 1..i
    BY DEF Cut, Reads, BtfTypeOK, Indexed
  <1>2. ASSUME NEW j \in 1..i - 1
        PROVE  /\ j \in 1..Len(types) /\ j \in Nat /\ offsets[j + 1] = StartOf(types, j) /\ offsets[j + 1] # 0
               /\ kind(offsets[j + 1]) = types[j].kind /\ type_name(offsets[j + 1]) = types[j].name
               /\ vlen(offsets[j + 1]) = Len(types[j].parts) /\ u32(offsets[j + 1] + 2).lo = types[j].type
               /\ types[j].type \in Nat
    <2>1. j \in 1..Len(types) /\ j \in 1..Len(types) + 1 /\ j \in Nat /\ 1 \in 1..Len(types) + 1 /\ 1 <= j
      BY <1>1
    <2>2. offsets[j + 1] = StartOf(types, j) /\ StartOf(types, j) + 3 <= end
      BY DEF Indexed
    <2>3. StartOf(types, j) \in Nat /\ StartOf(types, j) + 3 <= size
      <3>1. StartOf(types, j) \in Nat /\ end <= size /\ end \in Nat /\ size \in Nat
        BY <2>1, InSection
      <3>2. QED BY <2>2, <3>1
    <2>4. StartOf(types, j) # 0
      <3>1. StartOf(types, 1) = 6 /\ StartOf(types, 1) <= StartOf(types, j)
        BY <2>1, SectionIs, StartsInOrder DEF Cut, type_off
      <3>2. QED BY <2>3, <3>1
    <2>5. types[j].type \in Nat
      <3>1. types[j] \in BtfType
        BY <2>1 DEF Cut
      <3>2. QED BY <3>1 DEF BtfType
    <2>6. QED BY <2>1, <2>2, <2>3, <2>4, <2>5, HeaderAt
  <1>3. QED BY <1>1, <1>2

LEMMA FindType ==
    ASSUME Reads, Cut, readable, NEW i \in 1..Len(types) + 1, Indexed(i)
    PROVE  /\ find_type # 0 =>
                 /\ Typedefs(goal.typedef) # {} /\ First(Typedefs(goal.typedef)) \in 1..i - 1
                 /\ find_type = offsets[First(Typedefs(goal.typedef)) + 1]
           /\ find_type = 0 => \A j \in Typedefs(goal.typedef) : j >= i
  <1> DEFINE those == {k \in 2..Len(offsets) : kind(offsets[k]) = KIND_TYPEDEF /\ type_name(offsets[k]) = goal.typedef}
             T == Typedefs(goal.typedef)
  <1>1. Len(offsets) = i /\ i \in Nat /\ DOMAIN types = 1..Len(types) /\ Len(types) \in Nat
    BY DEF Indexed, Cut
  <1>2. ASSUME NEW j \in 1..i - 1 PROVE j + 1 \in those <=> j \in T
    <2>1. kind(offsets[j + 1]) = types[j].kind /\ type_name(offsets[j + 1]) = types[j].name /\ j \in 1..Len(types)
      BY IndexedAt
    <2>2. j + 1 \in 2..Len(offsets)
      BY <1>1
    <2>3. QED BY <1>1, <2>1, <2>2 DEF Typedefs
  <1>3. find_type = IF those = {} THEN 0 ELSE offsets[First(those)]
    BY DEF find_type, First
  <1>4. T \subseteq Nat /\ \A k \in those : k \in Nat /\ k - 1 \in 1..i - 1 /\ (k - 1) + 1 = k
    BY <1>1 DEF Typedefs
  <1>5. those \subseteq Nat
    BY <1>4
  <1>6. \A k \in T : k \in 1..Len(types)
    BY <1>1 DEF Typedefs
  <1> HIDE DEF those, T
  <1>7. CASE those = {}
    <2>1. \A j \in T : j >= i
      <3>1. ASSUME NEW j \in T, ~(j >= i) PROVE FALSE
        <4>1. j \in 1..i - 1
          BY <1>1, <1>6, <3>1
        <4>2. QED BY <1>2, <1>7, <4>1
      <3>2. QED BY <3>1
    <2>2. find_type = 0
      BY <1>3, <1>7
    <2>3. QED BY <2>1, <2>2 DEF T
  <1>8. CASE those # {}
    <2>1. First(those) \in those /\ \A k \in those : First(those) <= k
      BY <1>5, <1>8, FirstIs
    <2> DEFINE n == First(those) - 1
    <2>2. n \in 1..i - 1 /\ n + 1 = First(those)
      BY <1>4, <2>1
    <2> HIDE DEF n
    <2>3. n \in T
      BY <1>2, <2>1, <2>2
    <2>4. First(T) \in T /\ First(T) <= n /\ First(T) \in Nat /\ n \in Nat
      BY <1>4, <2>3, FirstIs
    <2>5. First(T) \in 1..i - 1
      BY <1>1, <1>6, <2>2, <2>4
    <2>6. First(T) + 1 \in those
      BY <1>2, <2>4, <2>5
    <2>7. First(T) = n
      <3>1. n + 1 <= First(T) + 1
        BY <2>1, <2>2, <2>6
      <3>2. QED BY <2>4, <3>1
    <2>8. find_type = offsets[First(T) + 1]
      BY <1>3, <1>8, <2>2, <2>7
    <2>9. find_type # 0
      BY <2>5, <2>8, IndexedAt
    <2>10. QED BY <2>3, <2>5, <2>8, <2>9 DEF T
  <1>9. QED BY <1>7, <1>8

LEMMA ReferentIs ==
    ASSUME Reads, Cut, readable, NEW i \in 1..Len(types) + 1, Indexed(i), NEW j \in 1..i - 1, NEW k
    PROVE  /\ referent(offsets[j + 1], k) # 0 =>
                 /\ Target(j, k) \in 1..i - 1 /\ referent(offsets[j + 1], k) = offsets[Target(j, k) + 1]
           /\ referent(offsets[j + 1], k) = 0 => Target(j, k) = 0 \/ Target(j, k) >= i
  <1> DEFINE id == types[j].type
  <1>1. i \in Nat /\ Len(types) \in Nat /\ DOMAIN types = 1..Len(types) /\ DOMAIN offsets = 1..i /\ offsets[1] = 0
    BY IndexedAt DEF Cut, Indexed
  <1>2. u32(offsets[j + 1] + 2).lo = id /\ id \in Nat
    BY IndexedAt
  <1>3. referent(offsets[j + 1], k) =
            IF id + 1 \in 1..i /\ offsets[id + 1] # 0 /\ kind(offsets[id + 1]) = k THEN offsets[id + 1] ELSE 0
    BY <1>1, <1>2 DEF referent
  <1>4. Target(j, k) = IF id \in 1..Len(types) /\ types[id].kind = k THEN id ELSE 0
    BY <1>1 DEF Target
  <1> HIDE DEF id
  <1>5. CASE id \in 1..i - 1
    <2>1. /\ offsets[id + 1] # 0 /\ id \in 1..Len(types) /\ id # 0
          /\ kind(offsets[id + 1]) = types[id].kind
      BY <1>5, IndexedAt
    <2>2. id + 1 \in 1..i
      BY <1>1, <1>5
    <2>3. QED BY <1>3, <1>4, <1>5, <2>1, <2>2
  <1>6. CASE id = 0
    <2>1. referent(offsets[j + 1], k) = 0
      BY <1>1, <1>3, <1>6
    <2>2. QED BY <1>4, <1>6, <2>1
  <1>7. CASE id >= i
    <2>1. ~(id + 1 \in 1..i)
      BY <1>1, <1>2, <1>7
    <2>2. QED BY <1>3, <1>4, <1>7, <2>1
  <1>8. QED BY <1>1, <1>2, <1>5, <1>6, <1>7

LEMMA ResolvedParams ==
    ASSUME Reads, Cut, readable, NEW i \in Nat, Ahead(i), Resolve
    PROVE  LET p == Prototype(goal.typedef) IN
           /\ result'.ok => p # 0 /\ result'.value = Len(types[p].parts)
           /\ ~result'.ok /\ end = StartOf(types, Len(types) + 1) => p = 0
  <1>1. i \in 1..Len(types) + 1 /\ Indexed(i) /\ cur = StartOf(types, i) /\ cur + 3 > end
    BY DEF Resolve, Ahead
  <1> DEFINE pointer == IF find_type = 0 THEN 0 ELSE referent(find_type, KIND_PTR)
             prototype == IF pointer = 0 THEN 0 ELSE referent(pointer, KIND_FUNC_PROTO)
             T == Typedefs(goal.typedef)
             d == First(T)
             p == Target(d, KIND_PTR)
             f == Target(p, KIND_FUNC_PROTO)
  <1>2. result' = IF prototype = 0 THEN Err ELSE Ok(vlen(prototype))
    BY DEF Resolve
  <1>3. Prototype(goal.typedef) = IF T = {} THEN 0 ELSE IF p = 0 THEN 0 ELSE f
    BY DEF Prototype
  <1>4. find_type # 0 => T # {} /\ d \in 1..i - 1 /\ find_type = offsets[d + 1]
    BY <1>1, FindType
  <1>5. find_type = 0 => \A j \in T : j >= i
    BY <1>1, FindType
  <1>6. pointer # 0 => find_type # 0 /\ p \in 1..i - 1 /\ pointer = offsets[p + 1]
    <2>1. ASSUME find_type # 0, referent(find_type, KIND_PTR) # 0
          PROVE  p \in 1..i - 1 /\ referent(find_type, KIND_PTR) = offsets[p + 1]
      BY <1>1, <1>4, <2>1, ReferentIs
    <2>2. QED BY <2>1
  <1>7. find_type # 0 /\ pointer = 0 => p = 0 \/ p >= i
    BY <1>1, <1>4, ReferentIs
  <1>8. prototype # 0 => pointer # 0 /\ f \in 1..i - 1 /\ prototype = offsets[f + 1]
    <2>1. ASSUME pointer # 0, referent(pointer, KIND_FUNC_PROTO) # 0
          PROVE  f \in 1..i - 1 /\ referent(pointer, KIND_FUNC_PROTO) = offsets[f + 1]
      <3> HIDE DEF pointer, f, p
      <3>1. p \in 1..i - 1 /\ pointer = offsets[p + 1]
        BY <1>6, <2>1
      <3>2. QED BY <1>1, <2>1, <3>1, ReferentIs DEF f
    <2> HIDE DEF pointer, f
    <2>2. QED BY <2>1
  <1>9. pointer # 0 /\ prototype = 0 => f = 0 \/ f >= i
    <2> HIDE DEF pointer, f, p
    <2>1. QED BY <1>1, <1>6, ReferentIs DEF f
  <1>10. i \in Nat /\ Len(types) \in Nat /\ DOMAIN types = 1..Len(types)
    BY DEF Cut
  <1>11. ASSUME result'.ok
         PROVE  Prototype(goal.typedef) # 0 /\ result'.value = Len(types[Prototype(goal.typedef)].parts)
    <2> HIDE DEF pointer, prototype, T, d, p, f
    <2>1. prototype # 0 /\ result' = Ok(vlen(prototype))
      BY <1>2, <1>11 DEF Err
    <2>2. T # {} /\ p \in 1..i - 1 /\ f \in 1..i - 1 /\ prototype = offsets[f + 1]
      BY <1>4, <1>6, <1>8, <2>1
    <2>3. p # 0 /\ f # 0
      BY <2>2
    <2>4. Prototype(goal.typedef) = f
      BY <1>3, <2>2, <2>3
    <2>5. vlen(offsets[f + 1]) = Len(types[f].parts)
      BY <1>1, <2>2, IndexedAt
    <2>6. QED BY <2>1, <2>2, <2>3, <2>4, <2>5 DEF Ok
  <1>12. ASSUME ~result'.ok, end = StartOf(types, Len(types) + 1)
         PROVE  Prototype(goal.typedef) = 0
    <2>1. i = Len(types) + 1
      <3>1. CASE i \in 1..Len(types)
        <4>1. i + 1 \in 1..Len(types) + 1 /\ Len(types) + 1 \in 1..Len(types) + 1 /\ i + 1 <= Len(types) + 1
          BY <1>10, <3>1
        <4>2. StartOf(types, i + 1) <= StartOf(types, Len(types) + 1)
          BY <4>1, StartsInOrder DEF Cut
        <4>3. StartOf(types, i + 1) = cur + 3 + Extra(types[i]) /\ Extra(types[i]) \in Nat
          <5>1. types[i] \in BtfType
            BY <3>1 DEF Cut
          <5>2. QED BY <1>1, <3>1, <5>1, SectionIs, RecordOf DEF Cut
        <4>4. cur \in Nat /\ end \in Nat
          BY <1>1, InSection
        <4>5. QED BY <1>1, <1>12, <4>2, <4>3, <4>4
      <3>2. QED BY <1>1, <1>10, <3>1
    <2>2. \A j \in DOMAIN types : ~(j >= i)
      BY <1>10, <2>1
    <2>3. /\ \A j \in T : j \in DOMAIN types
          /\ \A j, k : Target(j, k) = 0 \/ Target(j, k) \in DOMAIN types
      BY DEF Typedefs, Target
    <2>4. p = 0 \/ ~(p >= i)
      BY <2>2, <2>3
    <2>5. f = 0 \/ ~(f >= i)
      BY <2>2, <2>3
    <2> HIDE DEF pointer, prototype, T, d, p, f
    <2>6. prototype = 0
      BY <1>2, <1>12 DEF Ok
    <2>7. CASE find_type = 0
      BY <1>3, <1>5, <2>2, <2>3, <2>7
    <2>8. CASE find_type # 0 /\ pointer = 0
      BY <1>3, <1>7, <2>4, <2>8
    <2>9. CASE pointer # 0
      BY <1>3, <1>9, <2>5, <2>6, <2>9
    <2>10. QED BY <2>7, <2>8, <2>9
  <1>13. QED BY <1>11, <1>12

LEMMA WalkLooks ==
    ASSUME Reads, Cut, Looks, Walk
    PROVE  Looks'
  <1>1. CASE Skip
    BY <1>1, SkipLooks
  <1>2. CASE Index
    BY <1>2, IndexLooks
  <1>3. CASE FieldFound \/ FieldMissing \/ Resolve
    <2>1. /\ walk = "walking" /\ walk' = "done" /\ readable' = readable /\ types' = types /\ end' = end
          /\ goal' = goal
      BY <1>3 DEF FieldFound, FieldMissing, Resolve, file
    <2>2. readable
      BY <2>1 DEF Looks
    <2>3. PICK i \in Nat : Ahead(i)
      BY <2>1 DEF Looks
    <2>4. CASE OfField
      <3>1. FieldFound \/ FieldMissing
        BY <1>3, <2>4 DEF Resolve
      <3>2. FieldOffsetIsRight'
        <4>1. CASE FieldFound
          <5>1. FieldIs(goal.struct, goal.field, result'.value) /\ result'.ok
            BY <2>2, <2>3, <4>1, FoundField
          <5>2. QED BY <2>1, <5>1 DEF FieldOffsetIsRight, FieldIs, Structs, Fields
        <4>2. CASE FieldMissing
          <5>1. ~result'.ok
            BY <4>2 DEF FieldMissing, Err
          <5>2. Structs(goal.struct) # {} =>
                    \/ EndOf(types, First(Structs(goal.struct))) > end
                    \/ Fields(types[First(Structs(goal.struct))], goal.field) = {}
            BY <2>2, <2>3, <4>2, MissingField
          <5>3. QED BY <2>1, <5>1, <5>2 DEF FieldOffsetIsRight, Structs, EndOf, StartOf
        <4>3. QED BY <3>1, <4>1, <4>2
      <3>3. QED BY <2>1, <2>2, <2>4, <3>2 DEF Looks, LookupIsRight, OfField
    <2>5. CASE ~OfField
      <3>1. Resolve
        BY <1>3, <2>5 DEF FieldFound, FieldMissing
      <3>2. LET p == Prototype(goal.typedef) IN
            /\ result'.ok => p # 0 /\ result'.value = Len(types[p].parts)
            /\ ~result'.ok /\ end = StartOf(types, Len(types) + 1) => p = 0
        BY <2>2, <2>3, <3>1, ResolvedParams
      <3>3. ParamsAreRight'
        BY <2>1, <3>2 DEF ParamsAreRight, Prototype, Typedefs, Target, StartOf
      <3>4. QED BY <2>1, <2>2, <2>5, <3>3 DEF Looks, LookupIsRight, OfField
    <2>6. QED BY <2>4, <2>5
  <1>4. QED BY <1>1, <1>2, <1>3 DEF Walk

LEMMA InitCut == Init => Cut
  <1> SUFFICES ASSUME Init PROVE Cut
    OBVIOUS
  <1>1. PICK i \in Invocations : File(i.kernel)
    BY DEF Init
  <1> DEFINE whole == Section(i.kernel)
  <1>2. i.kernel \in Seq(BtfType) /\ types = i.kernel
    BY <1>1, KernelsAssumption DEF File
  <1>3. whole \in Seq(Word) /\ Section(types) = whole
    BY <1>2, SectionIs
  <1>4. readable => \E n \in 0..Len(whole) : data = SubSeq(whole, 1, n) \/ data = whole
    BY <1>1 DEF File
  <1> HIDE DEF whole
  <1>5. ASSUME readable
        PROVE  Len(data) <= Len(whole) /\ \A k \in 1..Len(data) : data[k] = whole[k]
    <2>1. PICK n \in 0..Len(whole) : data = SubSeq(whole, 1, n) \/ data = whole
      BY <1>4, <1>5
    <2>2. Len(whole) \in Nat /\ Len(SubSeq(whole, 1, n)) = n /\ \A k \in 1..n : SubSeq(whole, 1, n)[k] = whole[k]
      BY <1>3
    <2>3. QED BY <2>1, <2>2
  <1>6. QED BY <1>2, <1>3, <1>5 DEF Cut

LEMMA NextCut == Cut /\ [Next]_vars => Cut'
  <1> SUFFICES ASSUME Cut, [Next]_vars PROVE Cut'
    OBVIOUS
  <1>1. CASE UNCHANGED file
    BY <1>1 DEF file, Cut
  <1>2. CASE Child(Truetop)
    <2>0. Truetop
      BY <1>2 DEF Child
    <2>1. CASE Parse \/ Detect \/ Load \/ attach_raw_tracepoint \/ attach_creds \/ Drop
      BY <1>1, <2>1 DEF Parse, Detect, Load, attach_raw_tracepoint, attach_creds, Drop, btf
    <2>2. CASE Ask \/ Answer \/ NoOffset
      BY <1>1, <2>2 DEF Ask, Lookup, Answer, NoOffset
    <2>3. CASE WalkStep
      BY <1>1, <2>3 DEF WalkStep, Walk, FieldFound, FieldMissing, Skip, Index, Resolve
    <2>4. CASE TakeMaps
      <3>1. readable' = FALSE /\ types' = <<>>
        BY <2>4 DEF TakeMaps
      <3>2. <<>> \in Seq(BtfType)
        OBVIOUS
      <3>3. types' \in Seq(BtfType)
        BY <3>1, <3>2, Zenon
      <3>4. QED BY <3>1, <3>3 DEF Cut
    <2>5. CASE Time \/ TickBegins \/ TickEnds \/ BenchEnds \/ UiEnds
      BY <1>1, <2>5 DEF Time, TickBegins, TickEnds, BenchEnds, UiEnds, Running, btf
    <2>6. QED
      BY <2>0, <2>1, <2>2, <2>3, <2>4, <2>5 DEF Truetop, TruetopWorks
  <1>3. CASE Works
    BY <1>1, <1>3 DEF Works, Dispatch, Build, Returned, RunSuite, RunPick, FetchFixture, ListEnds,
          BenchArgument, Prepare, Engage, Restore, truetop, btf
  <1>4. CASE UNCHANGED vars
    BY <1>1, <1>4 DEF vars, truetop, btf
  <1>5. QED
    BY <1>2, <1>3, <1>4 DEF Next

LEMMA StillLooks ==
    ASSUME Looks, UNCHANGED btf
    PROVE  Looks'
  <1>1. UNCHANGED <<readable, types, data, end, walk, goal, cur, offsets, result>>
    BY DEF btf, file
  <1>2. LookupIsRight' = LookupIsRight
    BY <1>1 DEF LookupIsRight, FieldOffsetIsRight, ParamsAreRight, OfField, FieldIs, Structs, Fields, EndOf, StartOf,
          Prototype, Typedefs, Target
  <1>3. ASSUME NEW i \in Nat PROVE Ahead(i)' <=> Ahead(i)
    BY <1>1 DEF Ahead, Passed, Indexed, OfField, StartOf
  <1>4. QED
    BY <1>1, <1>2, <1>3 DEF Looks

LEMMA NextLooks == Reads /\ Cut /\ Looks /\ [Next]_vars => Looks'
  <1> SUFFICES ASSUME Reads, Cut, Looks, [Next]_vars PROVE Looks'
    OBVIOUS
  <1>1. CASE UNCHANGED btf
    BY <1>1, StillLooks
  <1>2. CASE walk' = "none"
    BY <1>2 DEF Looks
  <1>3. CASE Child(Truetop)
    <2>0. Truetop
      BY <1>3 DEF Child
    <2>1. CASE Parse \/ Detect \/ Load \/ attach_raw_tracepoint \/ attach_creds \/ Drop
      BY <1>1, <2>1 DEF Parse, Detect, Load, attach_raw_tracepoint, attach_creds, Drop
    <2>2. CASE Ask
      <3>1. (Begins => Looks)'
        BY BeginLooks, PTL
      <3>2. Cut'
        BY NextCut
      <3>3. Begins'
        <4>1. /\ cur' = type_off /\ offsets' = <<0>> /\ result' = Err /\ readable' = readable
              /\ walk' = IF readable THEN "walking" ELSE "done"
          BY <2>2 DEF Ask, Lookup, file
        <4>2. readable \in BOOLEAN
          BY DEF Reads, BtfTypeOK
        <4>3. QED BY <3>2, <4>1, <4>2 DEF Begins
      <3>4. QED BY <3>1, <3>3
    <2>3. CASE WalkStep
      BY <2>3, WalkLooks DEF WalkStep
    <2>4. CASE Answer \/ NoOffset \/ TakeMaps
      BY <1>2, <2>4 DEF Answer, NoOffset, TakeMaps
    <2>5. CASE Time \/ TickBegins \/ TickEnds \/ BenchEnds \/ UiEnds
      BY <1>1, <2>5 DEF Time, TickBegins, TickEnds, BenchEnds, UiEnds, Running
    <2>6. QED
      BY <2>0, <2>1, <2>2, <2>3, <2>4, <2>5 DEF Truetop, TruetopWorks
  <1>4. CASE Works
    BY <1>1, <1>4 DEF Works, Dispatch, Build, Returned, RunSuite, RunPick, FetchFixture, ListEnds,
          BenchArgument, Prepare, Engage, Restore, truetop
  <1>5. CASE UNCHANGED vars
    BY <1>1, <1>5 DEF vars, truetop
  <1>6. QED
    BY <1>3, <1>4, <1>5 DEF Next

LEMMA LooksHolds == Spec => [](Cut /\ Looks)
  <1>1. Init => Looks
    BY DEF Init, NoWalk, Looks
  <1>2. QED
    BY <1>1, InitCut, NextCut, NextLooks, ReadsHolds, PTL DEF Spec

(* A lookup's answer is the one the format gives, whatever types the walk  *)
(* has to pass, and what is wholly there is found, wherever the section is *)
(* cut; the number of parameters is that of the tracepoint's own prototype,*)
(* in whatever order the three records that lead to it lie.                *)
THEOREM LookupsAreRight == Spec => []LookupIsRight
  <1>1. Looks => LookupIsRight
    BY DEF Looks, LookupIsRight
  <1>2. QED
    BY <1>1, LooksHolds, PTL

-----------------------------------------------------------------------------
(* The globals.  What the answers before the k-th lookup have settled: an  *)
(* offset each, pid and tgid adjacent, the state under one of its names,   *)
(* and whether prev_state is among the arguments.                          *)
Has(name, s, f) == name \in DOMAIN globals /\ FieldIs(s, f, globals[name])

HasState ==
    /\ "STATE" \in DOMAIN globals
    /\ \/ FieldIs(task_struct, __state, globals["STATE"])
       \/ \E low \in {IF wide_be THEN 4 ELSE 0} :
             globals["STATE"] >= low /\ FieldIs(task_struct, state, globals["STATE"] - low)

HasPrevState ==
    globals["HAS_PREV_STATE"] = 1 =>
        LET p == Prototype(btf_trace_sched_switch) IN p # 0 /\ Len(types[p].parts) >= 5

Settled(k) ==
    /\ \A i \in 1..5 : k > i => Has(Names[i], Lookups[i].struct, Lookups[i].field)
    /\ k > 2 => globals["TGID"] = globals["PID"] + 4
    /\ k > 7 => HasState
    /\ k > 8 => HasPrevState

Overrides ==
    /\ at \in {"idle", "parse", "cpus"} => step = 1 /\ walk = "none"
    /\ at = "resolve" => Settled(step) /\ (walk # "none" => goal = Lookups[step])
    /\ at \in {"attach", "creds"} => Settled(9)

LEMMA LookupsAre ==
    /\ Len(Lookups) = 8
    /\ Lookups[1] = Field(task_struct, pid) /\ Lookups[2] = Field(task_struct, tgid)
    /\ Lookups[3] = Field(task_struct, signal) /\ Lookups[4] = Field(signal_struct, live)
    /\ Lookups[5] = Field(cred, uid) /\ Lookups[6] = Field(task_struct, __state)
    /\ Lookups[7] = Field(task_struct, state) /\ Lookups[8] = Proto(btf_trace_sched_switch)
  BY DEF Lookups

LEMMA NamesAre ==
    /\ Names[1] = "PID" /\ Names[2] = "TGID" /\ Names[3] = "SIGNAL" /\ Names[4] = "LIVE" /\ Names[5] = "CRED_UID"
    /\ Names[6] = "STATE" /\ Names[7] = "STATE" /\ Names[8] = "HAS_PREV_STATE"
  BY DEF Names

LEMMA NamesApart ==
    /\ \A i \in 1..5, j \in 1..8 : i # j => Names[i] # Names[j]
    /\ \A j \in 1..8 : j # 1 => Names[j] # "PID"
    /\ \A j \in 1..8 : j # 2 => Names[j] # "TGID"
  <1>1. ASSUME NEW i \in 1..5, NEW j \in 1..8, i # j
        PROVE  Names[i] # Names[j]
    <2>1. i \in {1, 2, 3, 4, 5} /\ j \in {1, 2, 3, 4, 5, 6, 7, 8}
      OBVIOUS
    <2>2. QED BY <1>1, <2>1, NamesAre
  <1>2. 1 \in 1..5 /\ 2 \in 1..5
    OBVIOUS
  <1>3. QED BY <1>1, <1>2, NamesAre

LEMMA FieldKnown ==
    ASSUME Looks, walk = "done", result.ok, NEW s, NEW f, goal = Field(s, f)
    PROVE  FieldIs(s, f, result.value)
  <1>1. readable /\ LookupIsRight
    BY DEF Looks
  <1>2. goal.typedef = 0 /\ goal.struct = s /\ goal.field = f
    BY DEF Field
  <1>3. QED
    BY <1>1, <1>2 DEF LookupIsRight, OfField, FieldOffsetIsRight

LEMMA ProtoKnown ==
    ASSUME Looks, walk = "done", result.ok, goal = Proto(btf_trace_sched_switch)
    PROVE  LET p == Prototype(btf_trace_sched_switch) IN p # 0 /\ result.value = Len(types[p].parts)
  <1>1. readable /\ LookupIsRight
    BY DEF Looks
  <1>2. goal.typedef = btf_trace_sched_switch /\ btf_trace_sched_switch # 0
    BY DEF Proto, btf_trace_sched_switch
  <1>3. QED
    BY <1>1, <1>2 DEF LookupIsRight, OfField, ParamsAreRight

LEMMA Overridden ==
    ASSUME NEW v, Override(v)
    PROVE  /\ Names[step] \in DOMAIN globals' /\ globals'[Names[step]] = v
           /\ \A g \in DOMAIN globals : g \in DOMAIN globals' /\ (g # Names[step] => globals'[g] = globals[g])
  BY DEF Override

LEMMA HasStays ==
    ASSUME NEW name, NEW s, NEW f, Has(name, s, f), types' = types,
           name \in DOMAIN globals', globals'[name] = globals[name]
    PROVE  Has(name, s, f)'
  BY DEF Has, FieldIs, Structs, Fields

LEMMA HasNow ==
    ASSUME NEW name, NEW s, NEW f, NEW v, FieldIs(s, f, v), types' = types,
           name \in DOMAIN globals', globals'[name] = v
    PROVE  Has(name, s, f)'
  BY DEF Has, FieldIs, Structs, Fields

LEMMA HasStateStays ==
    ASSUME HasState, types' = types, "STATE" \in DOMAIN globals', globals'["STATE"] = globals["STATE"]
    PROVE  HasState'
  BY DEF HasState, FieldIs, Structs, Fields

LEMMA HasPrevStateStays ==
    ASSUME HasPrevState, types' = types, globals'["HAS_PREV_STATE"] = globals["HAS_PREV_STATE"]
    PROVE  HasPrevState'
  BY DEF HasPrevState, Prototype, Typedefs, Target

LEMMA StillSettled ==
    ASSUME NEW k, Settled(k), UNCHANGED <<types, globals>>
    PROVE  Settled(k)'
  <1>1. ASSUME NEW i \in 1..5, k > i
        PROVE  Has(Names[i], Lookups[i].struct, Lookups[i].field)'
    <2>1. Has(Names[i], Lookups[i].struct, Lookups[i].field)
      BY <1>1 DEF Settled
    <2> DEFINE name == Names[i]
               s == Lookups[i].struct
               f == Lookups[i].field
    <2>2. Has(name, s, f) /\ name \in DOMAIN globals' /\ globals'[name] = globals[name]
      BY <2>1 DEF Has
    <2> HIDE DEF name, s, f
    <2>3. Has(name, s, f)'
      BY <2>2, HasStays
    <2>4. QED BY <2>3 DEF name, s, f
  <1>2. k > 2 => globals'["TGID"] = globals'["PID"] + 4
    BY DEF Settled
  <1>3. k > 7 => HasState'
    BY HasStateStays DEF Settled, HasState
  <1>4. k > 8 => HasPrevState'
    BY HasPrevStateStays DEF Settled
  <1>5. QED BY <1>1, <1>2, <1>3, <1>4 DEF Settled

LEMMA AnswerSettles ==
    ASSUME Launched, Reads, Looks, Overrides, Answer
    PROVE  Settled(step)'
  <1>1. /\ at = "resolve" /\ step \in Nat /\ step >= 1 /\ step <= 8 /\ walk = "done" /\ types' = types
        /\ step' = (IF step = 6 /\ result.ok THEN 8 ELSE step + 1) /\ Found /\ result.value \in Nat
    BY LookupsAre DEF Answer, Resolving, Launched, Reads, BtfTypeOK, file
  <1>2. Settled(step) /\ goal = Lookups[step]
    BY <1>1 DEF Overrides
  <1>3. CASE ~result.ok /\ step # 8
    <2>1. step = 6
      BY <1>1, <1>3 DEF Found
    <2>2. step' = 7 /\ UNCHANGED <<types, globals>>
      BY <1>1, <1>3, <2>1 DEF Answer
    <2>3. Settled(7)
      BY <1>2, <2>1 DEF Settled
    <2>4. Settled(7)'
      BY <2>2, <2>3, StillSettled
    <2>5. QED BY <2>2, <2>4 DEF Settled
  <1>4. CASE result.ok \/ step = 8
    <2>1. PICK v : /\ Override(v)
                   /\ v = IF step = 8 THEN IF result.ok /\ result.value >= 5 THEN 1 ELSE 0 ELSE state_offset(result.value)
      BY <1>4 DEF Answer
    <2>2. /\ Names[step] \in DOMAIN globals' /\ globals'[Names[step]] = v
          /\ \A g \in DOMAIN globals : g \in DOMAIN globals' /\ (g # Names[step] => globals'[g] = globals[g])
      BY <2>1, Overridden
    <2>3. step # 8 /\ step # 7 => v = result.value
      BY <1>1, <2>1 DEF state_offset
    <2>4. step \in 1..8
      BY <1>1
    <2>5. ASSUME NEW i \in 1..5, step' > i
          PROVE  Has(Names[i], Lookups[i].struct, Lookups[i].field)'
      <3> DEFINE name == Names[i]
                 s == Lookups[i].struct
                 f == Lookups[i].field
      <3>1. i = step \/ (i # step /\ step > i)
        BY <1>1, <2>5
      <3>2. CASE i # step /\ step > i
        <4>1. Has(name, s, f)
          BY <1>2, <3>2 DEF Settled
        <4>2. name # Names[step]
          BY <2>4, <3>2, NamesApart
        <4>3. name \in DOMAIN globals
          BY <4>1 DEF Has
        <4> HIDE DEF name, s, f
        <4>4. Has(name, s, f)'
          BY <1>1, <2>2, <4>1, <4>2, <4>3, HasStays
        <4>5. QED BY <4>4 DEF name, s, f
      <3>3. CASE i = step
        <4>1. result.ok /\ v = result.value
          BY <1>4, <2>3, <3>3
        <4>2. goal = Field(s, f)
          <5>1. i \in {1, 2, 3, 4, 5}
            OBVIOUS
          <5>2. Lookups[i] = Field(Lookups[i].struct, Lookups[i].field)
            BY <5>1, LookupsAre DEF Field
          <5>3. QED BY <1>2, <3>3, <5>2
        <4> HIDE DEF s, f
        <4>3. FieldIs(s, f, result.value)
          BY <1>1, <4>1, <4>2, FieldKnown
        <4>4. name \in DOMAIN globals' /\ globals'[name] = result.value
          BY <2>2, <3>3, <4>1
        <4> HIDE DEF name
        <4>5. Has(name, s, f)'
          BY <1>1, <4>3, <4>4, HasNow
        <4>6. QED BY <4>5 DEF name, s, f
      <3>4. QED BY <3>1, <3>2, <3>3
    <2>6. ASSUME step' > 2
          PROVE  globals'["TGID"] = globals'["PID"] + 4
      <3>1. step >= 2
        BY <1>1, <2>6
      <3>2. "PID" \in DOMAIN globals
        <4>1. 1 \in 1..5 /\ step > 1
          BY <1>1, <3>1
        <4>2. Has(Names[1], Lookups[1].struct, Lookups[1].field)
          BY <1>2, <4>1 DEF Settled
        <4>3. QED BY <4>2, NamesAre DEF Has
      <3>3. globals'["PID"] = globals["PID"]
        <4>1. Names[step] # "PID"
          BY <1>1, <2>4, <3>1, NamesApart
        <4>2. QED BY <2>2, <3>2, <4>1
      <3>4. CASE step = 2
        <4>1. result.ok /\ result.value = globals["PID"] + 4
          BY <1>1, <3>4 DEF Found
        <4>2. globals'["TGID"] = result.value
          BY <2>2, <2>3, <3>4, NamesAre
        <4>3. QED BY <3>3, <4>1, <4>2
      <3>5. CASE step # 2
        <4>1. step > 2 /\ 2 \in 1..5
          BY <1>1, <3>1, <3>5
        <4>2. Has(Names[2], Lookups[2].struct, Lookups[2].field) /\ globals["TGID"] = globals["PID"] + 4
          BY <1>2, <4>1 DEF Settled
        <4>3. "TGID" \in DOMAIN globals /\ Names[step] # "TGID"
          BY <2>4, <3>5, <4>2, NamesAre, NamesApart DEF Has
        <4>4. QED BY <2>2, <3>3, <4>2, <4>3
      <3>6. QED BY <3>4, <3>5
    <2>7. ASSUME step' > 7
          PROVE  HasState'
      <3>1. step = 6 \/ step = 7 \/ step = 8
        BY <1>1, <2>7
      <3>2. CASE step = 8
        <4>1. HasState /\ Names[step] # "STATE"
          BY <1>2, <3>2, NamesAre DEF Settled
        <4>2. QED BY <1>1, <2>2, <4>1, HasStateStays DEF HasState
      <3>3. CASE step = 6
        <4>1. result.ok
          BY <1>4, <3>3
        <4>2. FieldIs(task_struct, __state, result.value)
          BY <1>1, <1>2, <3>3, <4>1, LookupsAre, FieldKnown
        <4>3. Has("STATE", task_struct, __state)'
          BY <1>1, <2>2, <2>3, <3>3, <4>2, NamesAre, HasNow
        <4>4. QED BY <4>3 DEF Has, HasState
      <3>4. CASE step = 7
        <4>1. result.ok
          BY <1>4, <3>4
        <4>2. FieldIs(task_struct, state, result.value)
          BY <1>1, <1>2, <3>4, <4>1, LookupsAre, FieldKnown
        <4>3. PICK low \in {IF wide_be THEN 4 ELSE 0} : v = result.value + low
          <5>1. v = state_offset(result.value)
            BY <2>1, <3>4
          <5>2. QED BY <3>4, <5>1 DEF state_offset
        <4>4. low \in Nat /\ v >= low /\ v - low = result.value
          <5>1. low \in Nat
            BY <4>3
          <5>2. QED BY <1>1, <4>3, <5>1
        <4>5. "STATE" \in DOMAIN globals' /\ globals'["STATE"] = v
          BY <2>2, <3>4, NamesAre
        <4>6. FieldIs(task_struct, state, v - low)'
          <5> DEFINE w == v - low
          <5>1. FieldIs(task_struct, state, w)
            BY <4>2, <4>4
          <5> HIDE DEF w
          <5>2. FieldIs(task_struct, state, w)'
            BY <1>1, <5>1 DEF FieldIs, Structs, Fields
          <5>3. QED BY <5>2 DEF w
        <4>7. QED BY <4>3, <4>4, <4>5, <4>6 DEF HasState
      <3>5. QED BY <3>1, <3>2, <3>3, <3>4
    <2>8. ASSUME step' > 8
          PROVE  HasPrevState'
      <3>1. step = 8
        BY <1>1, <2>8
      <3>2. globals'["HAS_PREV_STATE"] = IF result.ok /\ result.value >= 5 THEN 1 ELSE 0
        BY <2>1, <2>2, <3>1, NamesAre
      <3>3. goal = Proto(btf_trace_sched_switch)
        BY <1>2, <3>1, LookupsAre
      <3>4. result.ok => LET p == Prototype(btf_trace_sched_switch) IN p # 0 /\ result.value = Len(types[p].parts)
        BY <1>1, <3>3, ProtoKnown
      <3> DEFINE p == Prototype(btf_trace_sched_switch)
      <3>5. p' = p
        BY <1>1 DEF Prototype, Typedefs, Target
      <3> HIDE DEF p
      <3>6. globals'["HAS_PREV_STATE"] = 1 => p # 0 /\ Len(types[p].parts) >= 5
        BY <3>2, <3>4 DEF p
      <3>7. globals'["HAS_PREV_STATE"] = 1 => p' # 0 /\ Len(types'[p'].parts) >= 5
        BY <1>1, <3>5, <3>6
      <3>8. QED BY <3>7 DEF HasPrevState, p
    <2>9. QED BY <2>5, <2>6, <2>7, <2>8 DEF Settled
  <1>5. QED
    BY <1>3, <1>4

LEMMA NextOverrides == Hooks /\ Launched /\ Reads /\ Looks /\ Overrides /\ [Next]_vars => Overrides'
  <1> SUFFICES ASSUME Hooks, Launched, Reads, Looks, Overrides, [Next]_vars PROVE Overrides'
    OBVIOUS
  <1>1. CASE at' \notin {"idle", "parse", "cpus", "resolve", "attach", "creds"}
    BY <1>1 DEF Overrides
  <1>2. ASSUME UNCHANGED <<types, globals>>, at' \in {at, "creds"}, at' = "creds" => at \in {"attach", "creds"},
               at \in {"idle", "parse", "cpus", "resolve"} => UNCHANGED <<at, step, walk, goal>>
        PROVE  Overrides'
    <2>1. Settled(9) => Settled(9)'
      BY <1>2, StillSettled
    <2>2. ASSUME at = "resolve" PROVE Settled(step)'
      <3>1. PICK k : k = step
        OBVIOUS
      <3>2. Settled(k) /\ step' = k
        BY <1>2, <2>2, <3>1 DEF Overrides
      <3>3. Settled(k)'
        BY <1>2, <3>2, StillSettled
      <3>4. QED BY <3>2, <3>3 DEF Settled
    <2>3. QED BY <1>2, <2>1, <2>2 DEF Overrides
  <1>3. CASE Child(Truetop)
    <2>0. Truetop
      BY <1>3 DEF Child
    <2>1. CASE Parse
      <3>1. at = "parse" /\ UNCHANGED <<step, walk>> /\ (at' = "cpus" \/ at' = "drop" \/ at' = at)
        BY <2>1 DEF Parse, ParsePrint, ParseOption, ParseEnd, ParseError, Leave, btf
      <3>2. QED BY <3>1 DEF Overrides
    <2>2. CASE Detect
      <3>1. at = "cpus" /\ UNCHANGED <<step, walk>> /\ (at' = "resolve" \/ at' = "drop")
        BY <2>2 DEF Detect, Leave, btf
      <3>2. step' = 1 /\ walk' = "none"
        BY <3>1 DEF Overrides
      <3>3. Settled(1)'
        BY DEF Settled
      <3>4. Settled(step)'
        BY <3>2, <3>3 DEF Settled
      <3>5. QED BY <3>1, <3>2, <3>4 DEF Overrides
    <2>3. CASE Ask
      <3>1. at = "resolve" /\ UNCHANGED <<types, globals, at, step>> /\ goal' = Lookups[step]
        BY <2>3 DEF Ask, Resolving, Lookup, startup, setup, file
      <3>2. PICK k : k = step
        OBVIOUS
      <3>3. Settled(k)'
        <4>1. Settled(k)
          BY <3>1, <3>2 DEF Overrides
        <4>2. QED BY <3>1, <4>1, StillSettled
      <3>4. Settled(step)'
        <4>1. step' = k
          BY <3>1, <3>2
        <4>2. QED BY <3>3, <4>1 DEF Settled
      <3>5. goal' = Lookups[step']
        BY <3>1
      <3>6. QED BY <3>1, <3>4, <3>5 DEF Overrides
    <2>4. CASE WalkStep
      <3>1. at = "resolve" /\ UNCHANGED <<types, globals, at, step, goal>> /\ walk = "walking"
        BY <2>4 DEF WalkStep, Resolving, Walk, FieldFound, FieldMissing, Skip, Index, Resolve, startup, setup, file
      <3>2. PICK k : k = step
        OBVIOUS
      <3>3. Settled(k)'
        <4>1. Settled(k)
          BY <3>1, <3>2 DEF Overrides
        <4>2. QED BY <3>1, <4>1, StillSettled
      <3>4. Settled(step)'
        <4>1. step' = k
          BY <3>1, <3>2
        <4>2. QED BY <3>3, <4>1 DEF Settled
      <3>5. goal' = Lookups[step']
        BY <3>1 DEF Overrides
      <3>6. QED BY <3>1, <3>4, <3>5 DEF Overrides
    <2>5. CASE Answer
      <3>1. at' = "resolve" /\ walk' = "none"
        BY <2>5 DEF Answer, Resolving
      <3>2. Settled(step)'
        BY <2>5, AnswerSettles
      <3>3. QED BY <3>1, <3>2 DEF Overrides
    <2>6. CASE NoOffset \/ TakeMaps \/ BenchEnds \/ UiEnds \/ Drop
      <3>1. at' \in {"drop", "bench", "ui", "exit"}
        BY <2>6 DEF NoOffset, TakeMaps, BenchEnds, UiEnds, Drop, Leave, Refused
      <3>2. QED BY <1>1, <3>1
    <2>7. CASE Load
      <3>1. at = "resolve" /\ step > 8 /\ UNCHANGED <<types, globals>> /\ (at' = "attach" \/ at' = "drop")
        BY <2>7, LookupsAre DEF Load, Refused, Leave, btf, file
      <3>2. Settled(9)
        <4>1. Settled(step) /\ step \in Nat
          BY <3>1 DEF Overrides, Launched
        <4>2. QED BY <3>1, <4>1 DEF Settled
      <3>3. Settled(9)'
        BY <3>1, <3>2, StillSettled
      <3>4. QED BY <3>1, <3>3 DEF Overrides
    <2>8. CASE attach_raw_tracepoint
      <3>1. at = "attach" /\ UNCHANGED <<types, globals>> /\ at' \in {"attach", "creds", "drop"}
        BY <2>8 DEF attach_raw_tracepoint, Refused, Leave, btf, file
      <3>2. Settled(9)'
        BY <3>1, StillSettled DEF Overrides
      <3>3. QED BY <3>1, <3>2 DEF Overrides
    <2>9. CASE attach_creds
      BY <1>1, <2>9 DEF attach_creds
    <2>10. CASE Time \/ TickBegins \/ TickEnds
      <3>1. at' \in {"bench", "ui"}
        BY <2>10 DEF Time, TickBegins, TickEnds, Running
      <3>2. QED BY <1>1, <3>1
    <2>11. QED
      BY <2>0, <2>1, <2>2, <2>3, <2>4, <2>5, <2>6, <2>7, <2>8, <2>9, <2>10 DEF Truetop, TruetopWorks
  <1>4. CASE Works
    <2>1. CASE Build
      <3>1. at = "idle" /\ UNCHANGED <<types, globals, step, walk, goal>> /\ at' \in {at, "parse"}
        BY <2>1 DEF Build, Hooks, setup, btf, file
      <3>2. QED BY <3>1 DEF Overrides
    <2>2. CASE UNCHANGED truetop
      BY <1>2, <2>2 DEF truetop, startup, setup, btf, file
    <2>3. QED
      BY <1>4, <2>1, <2>2 DEF Works, Dispatch, Returned, RunSuite, RunPick, FetchFixture, ListEnds,
            BenchArgument, Prepare, Engage, Restore
  <1>5. CASE UNCHANGED vars
    BY <1>2, <1>5 DEF vars, truetop, startup, setup, btf, file
  <1>6. QED
    BY <1>3, <1>4, <1>5 DEF Next

LEMMA SettledFits ==
    ASSUME Settled(9)
    PROVE  Fits
  <1>1. \A i \in 1..5 : Has(Names[i], Lookups[i].struct, Lookups[i].field)
    BY DEF Settled
  <1>2. /\ Has("PID", task_struct, pid) /\ Has("TGID", task_struct, tgid) /\ Has("SIGNAL", task_struct, signal)
        /\ Has("LIVE", signal_struct, live) /\ Has("CRED_UID", cred, uid)
    <2>1. 1 \in 1..5 /\ 2 \in 1..5 /\ 3 \in 1..5 /\ 4 \in 1..5 /\ 5 \in 1..5
      OBVIOUS
    <2>2. \A s, f : Field(s, f).struct = s /\ Field(s, f).field = f
      BY DEF Field
    <2>3. QED BY <1>1, <2>1, <2>2, NamesAre, LookupsAre
  <1>3. globals["TGID"] = globals["PID"] + 4 /\ HasState /\ HasPrevState
    BY DEF Settled
  <1>4. QED
    BY <1>2, <1>3 DEF Fits, Has, HasState, HasPrevState

(* When a hook is attached, every offset it reads through is the one of    *)
(* this kernel, pid and tgid are adjacent, and prev_state is taken from the*)
(* arguments only if they have it.                                         *)
THEOREM HooksFit == Spec => HooksFitTheKernel
  <1>1. Init => Overrides
    BY DEF Init, Ready, NoWalk, Overrides
  <1>2. Spec => []Overrides
    BY <1>1, NextOverrides, CleanHolds, LaunchedHolds, ReadsHolds, LooksHolds, PTL DEF Spec, Clean
  <1>3. Hooks /\ Overrides /\ [Next]_vars => [attached' \ attached # {} => Fits]_<<attached>>
    <2> SUFFICES ASSUME Hooks, Overrides, [Next]_vars, attached' \ attached # {}
                 PROVE  Fits
      OBVIOUS
    <2>1. at \in {"attach", "creds"}
      <3>1. CASE Child(Truetop)
        <4>1. Truetop /\ attached' # attached /\ attached' # {}
          BY <3>1 DEF Child
        <4>2. attach_raw_tracepoint \/ attach_creds
          BY <4>1 DEF Truetop, TruetopWorks, Parse, Detect, Ask, WalkStep, Answer, NoOffset, Load, TakeMaps, Time,
             TickBegins, TickEnds, BenchEnds, UiEnds, Drop, Running, startup, ending
        <4>3. QED BY <4>2 DEF attach_raw_tracepoint, attach_creds
      <3>2. CASE Works \/ UNCHANGED vars
        BY <3>2 DEF Works, Dispatch, Build, Returned, RunSuite, RunPick, FetchFixture, ListEnds, BenchArgument,
           Prepare, Engage, Restore, vars, truetop, startup, ending
      <3>3. QED BY <3>1, <3>2 DEF Next
    <2>2. Settled(9)
      BY <2>1 DEF Overrides
    <2>3. QED BY <2>2, SettledFits
  <1>4. QED
    BY <1>2, <1>3, CleanHolds, PTL DEF Spec, Clean, HooksFitTheKernel

-----------------------------------------------------------------------------
(* xtask's own state. *)
Settings ==
    /\ xt \in {"dispatch", "build", "truetop", "list", "prepare", "tune", "turbo", "restore", "done"}
    /\ passed \in Nat /\ prep \in BOOLEAN
    /\ DOMAIN turbo = DOMAIN found.turbo
    /\ refused \subseteq CPUs \cup {TURBO}

LEMMA NextSettings == Settings /\ [Next]_vars => Settings'
  <1> SUFFICES ASSUME Settings, [Next]_vars PROVE Settings'
    OBVIOUS
  <1> USE DEF settings, machine, CPUs
  <1>1. CASE Child(Truetop) \/ UNCHANGED vars
    BY <1>1 DEF Child, xtask, vars, Settings
  <1>2. CASE Dispatch \/ Build \/ Returned \/ ListEnds
    BY <1>2 DEF Dispatch, Build, Returned, ListEnds, Fail, Succeed, Done, Settings
  <1>3. CASE RunSuite
    <2>1. passed' \in Nat
      BY <1>3 DEF RunSuite, Settings
    <2>2. QED
      BY <1>3, <2>1 DEF RunSuite, Fail, Done, Settings
  <1>4. CASE RunPick \/ FetchFixture
    BY <1>4 DEF RunPick, FetchFixture, Fail, Done, Settings
  <1>5. CASE BenchArgument
    BY <1>5 DEF BenchArgument, Fail, Done, Settings
  <1>6. CASE Prepare
    BY <1>6 DEF Prepare, Fail, Done, Settings
  <1>7. CASE Engage
    <2>1. UNCHANGED <<passed, prep, found>> /\ DOMAIN turbo' = DOMAIN turbo
      BY <1>7 DEF Engage, EngageGovernor, EngageTurbo
    <2>2. xt' \in {"turbo", "list"} /\ refused' = refused /\ CPUs' = CPUs
      BY <1>7 DEF Engage, EngageGovernor, EngageTurbo, WriteGovernor, CPUs
    <2>3. QED
      BY <2>1, <2>2 DEF Settings
  <1>8. CASE Restore
    <2>1. UNCHANGED <<passed, prep, found>> /\ DOMAIN turbo' = DOMAIN turbo
      BY <1>8 DEF Restore
    <2>2. xt' \in {"restore", "done"} /\ refused' \subseteq refused \cup CPUs \cup {TURBO} /\ CPUs' = CPUs
      BY <1>8 DEF Restore, WriteGovernor, Governed, CPUs, Done
    <2>3. QED
      BY <2>1, <2>2 DEF Settings
  <1>9. QED
    BY <1>1, <1>2, <1>3, <1>4, <1>5, <1>6, <1>7, <1>8 DEF Next, Works

LEMMA SettingsHolds == Spec => []Settings
  <1>1. Init => Settings
    BY DEF Init, Settings
  <1>2. QED
    BY <1>1, NextSettings, PTL DEF Spec

LEMMA ReportTypes == Accounted /\ Told => ReportTypeOK
  <1> SUFFICES ASSUME Accounted, Told PROVE ReportTypeOK
    OBVIOUS
  <1>1. Counters /\ Sizes /\ tick \in {"none", "cpu"}
    BY DEF Accounted, Told, Shares
  <1>2. clock \in 0..MaxTime /\ MaxTime \in Nat
    BY <1>1, ReportAssumption DEF Counters
  <1>3. ASSUME NEW p \in Procs
        PROVE  blocked[p] \in 0..MaxTime /\ waited[p] \in 0..MaxTime
    <2>1. blocked[p] \in Nat /\ waited[p] \in Nat /\ blocked[p] <= waited[p] /\ waited[p] <= clock
      BY <1>1 DEF Counters, Sizes
    <2>2. QED
      BY <1>2, <2>1
  <1>4. Counter(CPU_NS) /\ \A prev \in {cpu_prev, io_prev} : Counter(prev.by_pid)
    <2>1. ASSUME NEW f \in {CPU_NS, cpu_prev.by_pid, io_prev.by_pid}, NEW p \in DOMAIN f
          PROVE  f[p] \in 0..MaxTime
      <3>1. f[p] \in Nat /\ f[p] <= clock
        BY <1>1 DEF Counters, Taken, Tally, Sizes
      <3>2. QED
        BY <1>2, <3>1
    <2>2. QED
      BY <1>1, <2>1 DEF Counters, Taken, Tally, Counter
  <1>5. Counter(IOWAIT_NS)
    <2>1. ASSUME NEW p \in DOMAIN IOWAIT_NS
          PROVE  IOWAIT_NS[p] \in 0..MaxTime
      <3>1. p \in Procs /\ IOWAIT_NS[p] \in Nat /\ blocked[p] \in Nat /\ waited[p] \in Nat
        BY <1>1 DEF Counters, Tally
      <3>2. IOWAIT_NS[p] + blocked[p] <= waited[p] /\ waited[p] <= clock
        BY <1>1, <3>1 DEF Sizes
      <3>3. QED
        BY <1>2, <3>1, <3>2
    <2>2. QED
      BY <1>1, <2>1 DEF Counters, Tally, Counter
  <1>6. blocked \in [Procs -> 0..MaxTime] /\ waited \in [Procs -> 0..MaxTime]
    BY <1>1, <1>3 DEF Counters
  <1>7. QED
    BY <1>1, <1>2, <1>4, <1>5, <1>6 DEF Counters, Sizes, ReportTypeOK

(* The types of all of it: the reader never leaves its file, no counter    *)
(* runs ahead of the clock, a snapshot has at most twice MAX_ROWS rows and *)
(* tracks no more processes than there are, and the settings keep their    *)
(* knobs.                                                                  *)
THEOREM TypeCorrect == Spec => []TypeOK
  <1>1. Clean /\ Launched /\ Accounted /\ Told /\ Reads /\ Settings => TypeOK
    <2> SUFFICES ASSUME Clean, Launched, Accounted, Told, Reads, Settings PROVE TypeOK
      OBVIOUS
    <2>1. BtfTypeOK /\ ReportTypeOK /\ StartupTypeOK
      BY ReportTypes DEF Reads, Launched
    <2>2. verdict \in {"none", "ok", "err"} /\ fault \in BOOLEAN
      <3>1. Verdict /\ Settings
        BY DEF Clean
      <3>2. xt # "done" => verdict = "none"
        BY <3>1 DEF Verdict
      <3>3. xt = "done" => verdict \in {"err", "ok"}
        BY <3>1 DEF Verdict
      <3>4. QED
        BY <3>1, <3>2, <3>3 DEF Verdict
    <2>3. DOMAIN governor = DOMAIN found.governor /\ tuned \subseteq CPUs
      BY DEF Clean, Governor, Governed
    <2>4. QED
      BY <2>1, <2>2, <2>3 DEF Settings, TypeOK
  <1>2. QED
    BY <1>1, CleanHolds, LaunchedHolds, AccountedHolds, ToldHolds, ReadsHolds, SettingsHolds, PTL
=============================================================================
