# truetop: TLA+ models, model checking and proofs

truetop is a `top` whose CPU and I/O-wait columns are not sampled but accounted:
eBPF programs on `sched_switch` bill every slice and every uninterruptible sleep
to its process as it ends, and a user-space collector reads the kernel's maps
once a second. What the program promises is that those numbers are *true*, so
that is what this directory is about: what a counter holds after any schedule,
what a read shows that races the hooks, what the reaper may delete, whose name a
row carries, which processes get a row and what it says, whether the hooks were
loaded with this kernel's offsets, what reaches the screen, and how the program
and its tools end.

Everything here is translated from the Rust source. Comments in the modules name
the function an operator stands for; `PROJECT.json` maps every definition to its
lines.

## 1. The system

### Components

| part (source) | state it keeps | operations | talks to |
|---|---|---|---|
| CPU hot path (`truetop-ebpf/src/cpu.rs`) | `CPU_NS` (per-CPU LRU hash), `START_TIME`, `CURRENT_TGID` (per-CPU slots) | `charge_out`, `mark_in` | called by `sched.rs`; read by `cpu_maps.rs` |
| I/O-wait hot path (`iowait.rs`) | `IOWAIT_NS` (per-CPU LRU hash), `SLEEP_SINCE` (plain hash, tid -> stamp) | `sleep_out`, `wake_in`, `forget_thread` | called by `sched.rs`, `lifecycle.rs` |
| hook glue (`sched.rs`, `main.rs`, `task.rs`) | offsets patched in at load | reads prev/next task, orders the calls of both hot paths | kernel |
| lifecycle (`lifecycle.rs`, `exit_notify.rs`) | `EXITS` (ring buffer) | exit hook: `forget_thread`, `announce` if the group is dead | reaper |
| identity hooks (`comm.rs`, `creds.rs`) | `COMM_MAP` (LRU hash) | exec and fork hooks, `commit_creds` fentry hook | `Resolver` |
| batched walk (`truetop/src/batch.rs`) | scratch buffers, cursor | `sum_per_cpu`, `lookup_batch`, `fold` | both counter maps |
| CPU map reader (`cpu_maps.rs`) | none between reads | `read`, `add_inflight` | counters and slots, unlocked |
| collectors (`metrics/cpu.rs`, `iowait.rs`, `mod.rs`) | the last read of each counter, as baseline | `deltas` of both, `elapsed_ns_since`, `percent` | batch walk, CPU map reader |
| identity resolver (`metrics/identity.rs`) | startup `seed`, `/etc/passwd` table | `backfill`, `named`, `forget` | `COMM_MAP`, `/proc` |
| reaper (`reaper.rs`) | the ring's consumer side | `reap` up to `BUDGET` records | both counter maps, resolver |
| collector task (`backend.rs`) | all of the above, the CPU history | `tick` with `top_pids`, `select_candidates` and `enrich`; `collector_loop` every second | publishes to `ArcSwap` |
| renderer and shutdown (`lib.rs`, `ui/mod.rs`) | `App`, last snapshot, `running` flag | `event_loop`, `handle_key`, `draw`, `run_ui` | `ArcSwap`, signal task, collector's handle |
| drawing (`ui/table.rs`, `header.rs`, `theme/*.rs`) | none | `visible`, `process_row`, gauges, charts, tints, `detect::resolve` | called by `draw` with one snapshot |
| BTF reader (`btf.rs`) | none | `field_offset`, `tracepoint_proto_params` | at startup, patches the eBPF object |
| startup (`lib.rs`, `cli.rs`, `system.rs`) | the options, the globals, the links | `parse`, `CpuCounts::detect`, `default_max_processes`, `load_ebpf`, `setup_collector`, `run_headless`, the exit | BTF reader, kernel, collector |
| machine readers (`system.rs`, `metrics/mem.rs`) | CPU total baseline | read `/proc`, sysfs | startup, collector |
| developer tooling (`xtask/src/main.rs`, `runner.rs`, `btf_fixtures.rs`) | the list worked off, tests counted | `run`, `test`, `update-btf-fixtures` | runs truetop as a child |
| benchmarks (`xtask/src/bench/*.rs`) | `CpuPerf`: the settings to restore | `bench`: arguments, `engage`, each pick, `Drop` | sysfs through sudo |
| load generators, demo, packaging, CI (`bench`, `demo`, `packaging`) | - | - | - |

### What is hard in it

* Three parties run without a common lock: the hooks (one per CPU, preemption
  off), the collector thread, and the processes themselves. The maps are the
  only thing they share, and each map access is atomic at most per entry.
* The hooks pair events: the stamp of one switch with the slice that ends at
  another, a D-state switch-out with a later switch-in, with idle gaps, recycled
  tids and full tables in between.
* Deletion is by tgid, after the fact: exit hook, last switch, read, reap and
  the reuse of the pid may come in many orders.
* Names and credentials come from three hooks attached one by one and from
  `/proc`, read twice per process after them, while processes fork and exec.
* The walk of a map that changes under it goes through reused buffers.
* The renderer tells snapshots apart by address, and acts on keys by the
  geometry of the last frame.
* The BTF walks have to skip kinds of records no test kernel may have, and what
  they return is patched into the hooks, where nothing can check it any more.
* Startup is a chain of steps each of which may fail, after hooks were attached.
* A wait is billed when it ends, over ticks that may have read half of a map.
* Tuning the CPUs for a benchmark can be refused for some of them, and must be
  undone on every way out.

`PROJECT.json` lists these one by one under `hazards`, each at its line with the
properties that cover it, or the reason that none does yet.

## 2. The modules

`Meter` is the abstract specification of both counters: per process and CPU slot
some time is *consumed*, a part of it is *counted* and a part has been *dropped*
with an entry; counted plus dropped never shrinks and never exceeds consumed.
It says nothing of stamps, hooks or maps. `CpuTime` and `IoWait` implement it.

| module | models | state and actions |
|---|---|---|
| `PerCpuLru` | the LRU per-CPU hash as the hooks use it (external: from the `get_ptr_mut`/`insert` pairs) | operators: `Charged`, `Without`, `Held`, `Left` |
| `CpuTime` | `cpu.rs` under `sched.rs`, read by `add_inflight` | the three CPU maps; `sched_switch` (= `charge_out`, then `mark_in`), `DeleteEntry` (the reaper), `Tick` |
| `IoWait` | `iowait.rs` under `sched.rs` and `lifecycle.rs` | `SLEEP_SINCE`, `IOWAIT_NS`; `sched_switch` (= `sleep_out`, then `wake_in`), `sched_process_exit`, `Wake`, `Fork` (recycled tids), `DeleteEntry`, `Tick` |
| `ReapCycle` | `backend.rs` tick, `metrics/cpu.rs` deltas, `exit_notify.rs`, `lifecycle.rs`, `reaper.rs` | `Read`, `BeginReap`, `ReapOne`, `EndTick` against `Fork`, `Clone`, `Run`, `SwitchOut`, `EndWait`, `Evict`, `ExitThread`, `ExitHook`, `LastSwitch` |
| `InflightRead` | `cpu_maps.rs` against `cpu.rs`, one memory access per step | `EnterHook`, `charge_out`, `mark_in_start`, `mark_in_current` per CPU; `BeginRead`, `ReadCounter`, `ReadTgid`, `ReadStart`, `ReadClock` |
| `Identity` | `comm.rs`, `creds.rs`, the attach order of `lib.rs`, `metrics/identity.rs` | hooks, `Rename`, `commit_creds`, `attach_*`, `backfill_*`, `proc_uid`, `forget` |
| `BatchWalk` | `batch.rs` over a changing map | `Begin`, `LookupBatch`, `CopyBucket`, `Stop`, `Fail`, `Fold`, `Return`; hooks `Add`, `Evict` |
| `Console` | `run_ui`, `collector_loop`, `ui/mod.rs`; extends `Frame` | one action per turn of `event_loop` (`Check`, `Refresh`, `Timeout`/`Key`/`Quit`/`Resize`, `Draw`, `Decide`), `Leave`, `Broken`, `Publish`, `Panic`, `Raise`, `SignalTask` |
| `Frame` | `ui/table.rs`, `ui/header.rs`, `ui/theme`, the status line | operators: `visible`, `process_row`, `io_row_bg`, `gauge`, `chart`, `status`, `push_capped`, `memory_used_bytes`, `resolve` |
| `Btf` | both walks of `btf.rs`, begun by `Lookup` | `Skip`, `FieldFound`, `FieldMissing`; `Index`, `Resolve`; the format itself as `Record`, `Section` |
| `Report` | `metrics/cpu.rs`, `metrics/iowait.rs`, `metrics/mod.rs`, the choice and the rows of `backend.rs` | `Elapse` (the machine), `ReadCpu`, `Publish`, `Gone`; `IoDeltas`, `CpuDeltas`, `top_pids`, `enrich` |
| `Startup` | `lib.rs`, `cli.rs`, the CPU counts of `system.rs` | `Parse*`; `Detect`; `Ask`, `Answer`, `NoOffset` around each lookup; `Load`; `attach_raw_tracepoint`, `attach_creds`, `TakeMaps`; `Time`, `TickBegins`, `TickEnds`; `BenchEnds`, `UiEnds`, `Drop` |
| `Xtask` | `xtask/src` | `Dispatch`, `Build`, `Returned`; `RunSuite`, `RunPick`, `FetchFixture`, `ListEnds`; `BenchArgument`, `Prepare`, `Engage`, `Restore` |
| `CpuTimeProofs`, `IoWaitProofs`, `ReapCycleProofs`, `InflightReadProofs`, `IdentityProofs`, `BatchWalkProofs`, `ConsoleProofs`, `XtaskProofs` | theorems | section 5 |
| `MC*` | constants and symmetry for TLC | - |

How they fit. `CpuTime` establishes that a read by an unhurried reader equals the
time run (`ReadIsExact`). `InflightRead` opens up the two atomic steps of that
statement, the hook and the read, and says what their race can add. `ReapCycle`
takes the figure read for a pid as exact, unless the read was cut short, and asks
what a sequence of reads, deltas, deletions, evictions and pid reuse reports. `BatchWalk` is what "read the counters" of both stands for
when the map does not fit one call; `Report` takes from it that a read may stop
half way, from `IoWait` that a wait is billed at its end, and follows both
counters into the rows of a snapshot. `Console` takes a snapshot as given and
brings it to the screen, and `Frame` says what that screen then holds.

`Startup` composes `Btf` and `Report`: one process from the command line through
the lookups, whose answers become the globals of the hooks, to the ticks and
the exit. `Xtask` composes that process with the tool that starts and waits for
it. So one run (`program`) goes from an invocation to its verdict, and what a
lookup answers is seen to reach the hooks.

History variables (named in each module's head) record what really happened: the
time a process really ran, whose life a ring record is of, which snapshot a
screen was drawn from. No action reads one to decide anything.

Conventions. An operator `X_Something` under the comment "Seeded fault" is a
mistake somebody could make in `X`; it is used by no action. Substituting it for
`X` makes the property named in `PROJECT.json` under `mutants` fail, which shows
that the property depends on that part of the code. There is one for each
property of each passing run.

### What is abstracted

* Per-CPU preemption-free hooks are one step in `CpuTime`, `IoWait`: every slot a
  call touches belongs to its CPU, or (`SLEEP_SINCE`) to a thread that no other
  CPU can switch at that time. `InflightRead` does not make that step.
* `InflightRead` has one counter per process instead of one per process and CPU,
  and neither evictions nor deletions; that a read of the slots may fail, which
  leaves the counters uncorrected (`cpu_maps.rs:61-64`), is in `ReapCycle`. Loads and stores are sequentially
  consistent; on weaker hardware `mark_in`'s two stores could be seen in the
  other order, which `cpu.rs:58-61` excludes only for the incoming CPU. This is
  a limit of the model.
* `ReapCycle` folds the CPUs into one slot per pid, and the I/O map into whether
  an entry exists; its waits are `IoWait`'s subject. Its pids are some of those of
  the machine: the rest of it makes the LRU maps full, so that an entry of any of
  the three may be evicted at any time (`Evict`). The read is one step and yields
  any part of the entries, since a batch call that fails ends the walk with what
  it has (`batch.rs:126-129`), with or without the slices under way. The three
  deletions for one record (`reaper.rs:53-55`) are one step.
* `Report` has no process that exits, so its ring is empty and the reap that ends
  a tick (`backend.rs:140-146`) does nothing; deletions are `ReapCycle`'s subject.
* Time is a small counter; nanosecond counters do not wrap in 584 years and
  `wrapping_sub`/`saturating_sub` on the paths modelled only ever see ordered
  stamps, which is what `StampIsScheduleIn` and `StampsAreSleepers` say.
* Names are numbers, given at every exec and rename; a filter is its length; an
  object in memory is its address and the tick that made it; a BTF name is a
  number and BTF positions are words.
* `Frame` keeps percentages in tenths, `Report` shares in twelfths of a percent,
  both exact for what the runs use; `Report` has one CPU to run on.
* `Startup` forgets the BTF file and the globals once the collector is made, as
  nothing reads them again, and `Drop` the maps. Memory lock limits and log
  lines are left out. `Identity` has the same attach order against processes
  that start meanwhile.
* A command `xtask` runs is its exit: it succeeds or fails. A governor and a
  turbo knob are their contents.
* In `Identity`, threads of a process share a uid, as libc's setuid arranges; the
  walk of `/proc` either opens and lists every process, or does not open at all
  and leaves an empty seed.

## 3. What is checked

Deadlock is checked in every run but two: in `console` and in `program` what is
modelled comes to its end.

### Passing runs

| run | instance | what it shows |
|---|---|---|
| `cpu_time` | 2 CPUs, 3 threads of 2 processes, 1 map entry, clock to 4 | `StampIsScheduleIn`: every outgoing thread finds its own stamp, across idle gaps that rewrite one slot only. `ReadIsExact`: counter + in-flight + what left with an entry + the slice under way at attach = time run. `ImplementsMeter`. |
| `io_wait` | 2 CPUs, 2 threads, 1 stamp slot, 1 map entry, `prev_state` probe-read, clock to 3 | `StampsAreSleepers`: no running, dead or new thread under a recycled tid carries a stamp. `WaitsAreBilled`: each completed wait is billed once and in full except those a full table or a racing waker hid. `ImplementsMeter`. |
| `reap_cycle` | 1 pid, 3 lives of up to 2 threads, ring 2, budget 1, 3 units of time, evictions and short reads at any time | `NoInventedTime`, `BaselineDeltaIsExact`, `SettledTotalsAreRead`, `OnlyPredecessorsStrip`, `EveryRecordIsDrained`. |
| `inflight_read` | 2 CPUs, 2 processes, 2 switches per CPU, clock to 3 | `IncomingNeverStale`; `OverbillIsBoundedByTheRead` outside of one window; `QuietReadIsExact`. |
| `identity` | 2 pids, 2 uids, 1 map entry, ring 1, 2 new names, `/proc` opens or not | `ShownIsOwn`: a live row has a name and uid of its own process and program; `KnownFromTheFirstTick`. |
| `batch_walk` | 3 keys in 2 buckets, 2 CPUs, batches of 2, slots to 1 | `StableKeysAreRead`, `NothingStaleIsRead`, `WalksEnd`. |
| `console` | 3 addresses, tables of one or two processes with missing values and ties, both backgrounds, 1 filter character, 2 snapshots after the default | `ScreenIsCurrent`, `SelectionIsARow`, `NoUpdateMissed`: the screen is of the latest snapshot and view. `FrameIsTrue`: what it shows of them is true. `ExitNamesItsCause`, `EndsWhenItShould`, `FreshIsShown`. |
| `program` | every verb; 80 kernels, each whole or cut at any word; arguments in and out of order; 2 processes over maps of 1, 3 or more entries, 4 units of time, 1 row per column; 10 machines | `LookupIsRight`: a walk's answer is the format's. `HooksFitTheKernel`: no hook is attached with an offset that is not this kernel's. `TopIsListed`, `WaitsAreShownOnce`: who has a row, and what waiting adds up to. `EndsClean`: no hook, a true verdict, and CPU by CPU the settings the tuning leaves. `ProgramEnds`. |

Why the bounds are enough. A hazard needs its actors and one round of reuse:

* `cpu_time`: two threads of one process and one of another on two CPUs make
  migration, hand-over and idling; a one-entry map makes each insertion of the
  other process evict; four units of time fit a slice, an idle gap and a second
  slice. The three main properties are proved for all values besides.
* `io_wait`: one stamp slot for two threads makes the table full; a tid is
  reused within the bound. `HAS_PREV_STATE = FALSE` has every behaviour of
  `TRUE` (the read may be right) and the race on top.
* `reap_cycle`: a second life inherits from the first what was not reaped, a
  third one from the second while records of the first are still queued; two
  records fill the ring with a budget of one, so a backlog forms. More pids
  share only the ring, the budget and the room in the maps, and the second record
  stands for another pid's in the first two, `Evict` for it in the third.
* `inflight_read`: two switches per CPU put a finished switch before, and a
  second inside, the read; the read itself is one pass.
* `batch_walk`: the second bucket fits behind the first or not; a bucket larger
  than a batch, equal to one, and smaller occur, and so do stale buffers from a
  batch and from a previous walk, which the loop back to `idle` makes part of
  the state space.
* `console`: three addresses are what the two holders and one new object need,
  so each freed address may come back at once. The two contents rank their
  processes differently by each column, miss each value once, and sit on the
  threshold and past the ends of the tints; the history holds two samples, so
  one is pushed out; it is full from the first snapshot on, as in the code, so a
  chart has no sample or all.
* `program`: a type of every kind comes before a struct, with and without the
  flag that gives member offsets another layout, and the three records that lead
  to the prototype come in four orders, one of them with a wrong reference; cuts
  fall on every word. Two ticks make one interval; four units of time leave two
  ticks and a wait that spans both. A map of one entry evicts, a read may leave
  out any set of keys, and with two processes and one row per column a tie, an
  overlap and a disjoint choice all occur. The machines have governors alike,
  not alike, only cpu0 tuned, and none, with either turbo knob or both, on and off; the
  two CPUs accept a write in any combination.

Fairness. `reap_cycle` assumes `WF(Tick)`: `collector_loop` ticks every second
until it is aborted. The exits go on meanwhile: nothing is assumed of the
processes. `batch_walk` assumes `WF(Walk)`: the walking thread, in user space or
in the system call, is scheduled; the hooks may do anything. `console` assumes
`WF(Renderer)`, since `poll` returns after `FRAME_BUDGET` even when nothing
happens, and `WF(SignalTask)`, which runs on the workers of the multi-threaded
runtime while the renderer keeps the main thread; of the collector nothing is
assumed. `program` assumes that what is not waiting for the user goes on: xtask
itself, and truetop but for the end of its UI (`UiEnds`), since `--bench` sleeps
and reads but never waits for a key. The other runs have safety properties only
and need none.

### Findings: where the code and its comments part

Each of these four is a run of its own whose property states the sentence quoted, and which
TLC refutes with a short trace.

* `xtask_settings` (`SettingsRestored`). `bench/mod.rs:11-13` has the original CPU
  settings restored on exit, including on error or panic, so that the machine is
  never left tuned. `engage` keeps a governor to restore only if `tee` could write
  *every* CPU (`cpu_perf.rs:35-40`): where it could write some, those stay at
  `performance`, and that is what TLC finds. What is kept is cpu0's governor, and
  the restore writes it to every CPU, so governors that were not alike all end as
  cpu0's. Both outcomes are stated, CPU by CPU, in `CpuIsRestored`, which is the
  part that holds: a CPU that the tuning did not write, and the turbo knob, end
  as they were found. `SettingsRestored` asks nothing of a restore of which a
  write was refused, `CpuIsRestored` nothing of the CPU or knob refused.
* `reap_window` (`ReadBeforeReap`). `exit_notify.rs:8-9` has the next tick read
  the complete totals before it removes them. The tick reads, then enriches its
  rows from `/proc`, then drains what is in the ring *by then*; a process that
  ends in between is deleted unread. `SettledTotalsAreRead` is the part that
  holds: a process finished by the time of the read.
* `inflight_sliver` (`OverbillIsASliver`). `cpu.rs:58-60` speaks of a sliver of
  nanoseconds for a read between the writes. A read that loads `CPU_NS` after
  `charge_out`'s add and the slots before `mark_in`'s stores counts the whole
  slice twice, however long it was. `OverbillIsBoundedByTheRead` is the sentence
  with that window taken out, and holds.
* `io_wait_preempt` (`OnlyBlockersBilled`). A thread preempted after it set
  `TASK_UNINTERRUPTIBLE` and before it called `schedule` is stamped and billed
  for its wait on the run queue; `iowait.rs:1-2` says that only the task that
  actually blocks is charged. The tracepoint's first argument (`preempt`) tells
  the two apart and is not read.

Others were met on the way and have no run, because a model of them would restate
one line:

* `comm.rs:32-34` says that an evicted process shows as unknown; the lookup falls
  back to the startup seed (`identity.rs`), which may be of an older program.
* `backend.rs:180-181` says that whatever the renderer sorts by, the top of that
  metric is present. The rows are the top by CPU and by I/O wait; there is no
  such choice by memory. `TopIsListed` is about the two that there are.
* `metrics/iowait.rs:9-10` gives several threads as the reason why a wait can
  exceed 100%. A single thread can: its wait is billed at its end, in one
  interval. `WaitsAreShownOnce` says what does hold.
* `lifecycle.rs:26-28` sets out to keep a live process from being stripped of its
  counters and its name. The reaper knows a tgid only (`reaper.rs:53-55`): a pid
  announced by its last thread, freed, and given to a new process before the
  record is drained has the *new* process's entries deleted. Pids are rarely
  reused that fast, except on small `pid_max` or across a backlog.
  `OnlyPredecessorsStrip`, which states this exception, is the part that holds:
  it takes a record of an earlier process.
* `metrics/cpu.rs:31-35` names two things that make a counter go backwards, an
  evicted entry and a recycled pid. A read cut short is a third, and the tick
  after it reports growth that was none: the part left out comes back on top of
  the baseline without it. `NoInventedTime` excludes such pids (`misread`).
* An interrupt of `xtask` runs no `Drop`, so it leaves the machine tuned; it is
  not modelled.
* `default_max_processes` takes `FLOOR` entries even where `BUDGET_PER_MAP` would
  allow fewer.

## 4. What each property is about

The comment above each property in its module states it in words and names the
lines that make or break it. In short: *StampIsScheduleIn* and
*StampsAreSleepers* are about pairing; *ReadIsExact*, *WaitsAreBilled* and
*ImplementsMeter* about conservation; *NoInventedTime* and
*BaselineDeltaIsExact* about what the user sees over time; *SettledTotalsAreRead*
and *OnlyPredecessorsStrip* about deletion; *IncomingNeverStale*,
*OverbillIsBoundedByTheRead* and *QuietReadIsExact* about the unlocked read;
*ShownIsOwn* and *KnownFromTheFirstTick* about identity; *StableKeysAreRead* and
*NothingStaleIsRead* about the walk; *TopIsListed* and *WaitsAreShownOnce* about
the report; *NoUpdateMissed*, *ScreenIsCurrent*, *SelectionIsARow* and
*FrameIsTrue* about what is on the screen; *LookupIsRight* and
*HooksFitTheKernel* about the offsets from the file to the hook;
*ExitNamesItsCause*, *EndsWhenItShould*, *EndsClean* and *ProgramEnds* about the
end. `ShownIsOwn` excludes three cases by name,
each a real one: a pid whose entry was evicted from a full `COMM_MAP` (the lookup
then falls back to the startup seed), a credential change before the fentry hook is
attached or with it missing, and a pid reused between the attaching of the exec
hook and that of the fork hook. `KnownFromTheFirstTick` speaks of a `/proc` that
could be listed, and excludes an evicted entry and one that the record of an
earlier process of its pid took.

`BaselineDeltaIsExact` excludes a pid whose entry was deleted or evicted between
the two reads, or of which one of them left out a part (`cut`): after a loss
the code reports too little or nothing, and after a part too much.
`NoInventedTime` holds of those too, evictions included, and excludes only pids
that some read showed a part of (`misread`). `SettledTotalsAreRead` and
`ReadBeforeReap` ask nothing of what the last read left out.

`TopIsListed` is not the code's choice restated: it compares the rows with what
each process really did in the interval (`ran`, and the waits billed in it), and
so fails if the CPU deltas, the choice or the row is wrong. Of I/O wait it checks
the choice and the row only, as what is due there is what `IoDeltas` makes of the
counters; `WaitsAreShownOnce` is about those. `TopIsListed` excludes a tick whose
read stopped half way, and CPU time in a snapshot that says it is at capacity,
which is what the flag is for. `WaitsAreShownOnce` excludes from its equation,
but not from its bound, processes whose waits an eviction or a short read
dropped (`lost`).

## 5. What is proved

With TLAPS, for every set of threads, processes and CPUs, any map capacity and
any value of the bounds. The assumptions are the `ASSUME`s of the modules (capacities
are positive, a key has a bucket and a slot a bound, every thread has a process,
idle is not a thread, the CPUs are finitely many, there is an address, page heights
are positive, the processes of a snapshot are a sequence without repeats whose
figures are natural numbers or missing, a group may have a thread, a machine has
a first CPU and two turbo knobs, a kernel is a list of types the format can express), which TLC
evaluates in the runs. Of a type the last one (`BtfType`) says that its kind is one
of the nineteen, that its parts are fewer than 2^16, as `vlen` has sixteen bits,
and that it has none if its kind has none; nothing is said of the order of the
types, of what they refer to, or of how many share a name.

* `CpuTimeProofs`: `TypeCorrect`, `StampCorrect`, `ReadCorrect` for `Spec =>
  []TypeOK`, `[]StampIsScheduleIn`, `[]ReadIsExact`, and `MeterRefinement` for
  `Spec => M!Spec`. `ReadIsExact` alone is not inductive: a switch bills
  `now - START_TIME`, which is right only if the slot holds the schedule-in time
  (`StampIsScheduleIn`) and if `CURRENT_TGID` is the tgid of the running thread
  once the CPU has switched; these make up the inductive invariant. What carries
  the step through evictions is the conservation law of the map (`AddsUp`, proved
  by `ChargedAddsUp`): whatever an insertion evicts, what is held plus what has
  left grows by exactly the amount charged, in the slot charged and nowhere else. For the refinement,
  `ReadIsExact` gives counted + dropped <= consumed, and the law gives that
  counted + dropped does not shrink.
* `IoWaitProofs`: `TypeCorrect`, `StampsCorrect`, `BillsCorrect` for `Spec =>
  []TypeOK`, `[]StampsAreSleepers`, `[]WaitsAreBilled`, and `MeterRefinement`.
  The bill at a switch-in is right only if the stamp found is the one of this
  wait, and nothing is billed only if there was no wait or no stamp of it. So
  the inductive invariant adds to the three properties that a running thread is
  on one CPU and placed there (`RunningIsPlaced`; a switch could otherwise stamp
  a thread that runs elsewhere), and that whoever left a CPU in state D has a
  stamp exactly if one could be taken (`SleepersAreStamped`). The lemmas
  `StampTable`, `SwitchBills` and `SwitchWaits` say what one switch does to the
  stamps, to the counters and to the waits that ended; the conservation law again carries
  the evictions, and is stated here once more.
* `ReapCycleProofs`: `NothingInvented`, `Spec => []NoInventedTime`. The bound
  alone says nothing of the total the next read will find, so the invariant
  (`Covered`) adds: for a pid with a baseline, what has been reported plus what a
  read would show now is at most what was used plus the baseline. The growth the
  next delta can report is then already paid for. Billing a slice moves it from
  the in-flight time to the entry, a deletion or an eviction only lowers the total, and a read
  makes the total the new baseline. A read that shows only a part breaks the
  bound for its pid, which is then out of it (`misread`); one that shows nothing
  of a pid leaves it without a baseline, and so without a delta.
  `OnlyPredecessors`, `Spec => OnlyPredecessorsStrip`. The
  property is about the record at the head of the ring when it is drained, but
  what that record is was settled when it was announced, behind the others. The
  invariant (`InOrder`) is therefore about every record in the ring: it is of a process the
  pid has had, and of an earlier one than the pid's present process while that
  one has a living thread. `announce` keeps it because `group_is_dead` was read
  first, `Clone` because only a living group grows, `Fork` because it starts a
  life above all records.
  `TypeCorrect`, by `Typed`, which adds to the types that a group's threads, its
  leader and its exits agree in number (`Populated`): without that a count could
  fall below zero.
  `DeltasAreExact`, `Spec => BaselineDeltaIsExact`. The invariant (`Baseline`) says
  for a pid that is not in `cut` that its baseline plus what was used since the
  read is what a whole read would find; every action either moves time between
  the slice and the entry or puts the pid into `cut`, as a reap, an eviction and a
  short read do. `SettledAreRead`, `Spec => SettledTotalsAreRead`: of a process
  that had finished by the read nothing can be used later (`Finished`), so what
  the reap removes is what was read; that it was also reported holds only of a pid
  with a baseline before that read.
* `InflightReadProofs`: `TypeCorrect`; `StampsAreFresh` for `Spec =>
  []IncomingNeverStale`. The invariant (`Ordered`) follows one order through the
  race: a slot's tgid is never newer than its stamp, because `mark_in` stores the
  stamp first; stamps only grow; and the read loads the tgid before the stamp. So
  the stamp a read pairs with a tgid is of that tgid's switch or a later one.
  `OverbillBounded`, `Spec => OverbillIsBoundedByTheRead`: the invariant
  (`Accounted`, `Bounded`) takes time apart into the units each CPU has run, as
  pairs of a CPU and a unit. What a read has shown of a process is then a set of
  units that belong to the process and a set of those that passed since the
  read began, and the bound is a count of two finite sets.
  `QuietReadsExact`, `Spec => QuietReadIsExact`, with `Quiet`: as long as no
  hook has moved, what the read still owes a process is what is in its slots, and
  each load takes its share off.
* `IdentityProofs`: `TypeCorrect`; `ShownIsItsOwn` for `Spec => []ShownIsOwn`, by
  an invariant (`Rightly`) that says it of every source a name may come from,
  the map, the seed and the half-read entry of the walk, and adds the order of
  the startup, without which a seed could be older than the first hook;
  `KnownFromTheStart` for `Spec => []KnownFromTheFirstTick`, by an invariant
  (`Listed`) over how far the walk has come, if it began at all. The lemmas `Bounded` and
  `InsertBounded` keep map and ring within their capacities.
* `BatchWalkProofs`: `TypeCorrect`; `StableKeysRead` and `NothingStaleRead`, for
  any keys and buckets, any number of CPUs and any length of a batch. The
  invariant says of the map that the sum of an entry lies between its marks
  (`Entries`), of the buffer that each of the call's own entries does (`Buffer`),
  and of the cursor that a key whose bucket is behind it, and which was there all
  along, is in the totals or among those entries (`Behind`). It holds although a
  call rewrites part of a buffer that is never cleared: `Strides` shows that a
  place in the buffer tells the row and the CPU it is of, so the rows of the
  entries copied before stay (`RowStays`) and a new row adds up to the key's slots
  (`RowSum`). The sums of the model are folds; `SumCounts` shows that such a fold
  counts a set of units, without induction: the counting function satisfies the
  equation the fold is chosen by, and a smallest set on which the two differ
  cannot exist. Everything else about sums is then about finite sets.
* `ConsoleProofs`: `TypeCorrect`, over the snapshots a collector can publish;
  `NothingMissed` for `Spec => NoUpdateMissed`, by an invariant (`Holding`) that
  ties the address compared with to the object shown: as long as it is held its
  address is not given out again, so equal addresses are equal snapshots;
  `CauseNamed` for `Spec => []ExitNamesItsCause`, by `Cause`; `ScreenKept` and
  `SelectionKept` for `Spec => []ScreenIsCurrent` and `Spec =>
  []SelectionIsARow`, by `Drawn`: between two turns either the view is the one
  drawn or a redraw is pending. The lemmas `SnapshotStays` and `NoRowsAtFirst`
  carry a drawn snapshot past a later one that is published.
  `FrameShown` for `Spec => []FrameIsTrue`, for any processes, figures, filters
  and lengths of the chart. The sort is a numbering: `Ranking` shows that how many
  processes go before one is different for each and leaves out no place, by
  counting, so the rows are a bijection with the processes that pass
  (`Visible`). `Shade`, `Deepens` and `RowTint` are the arithmetic of the tints,
  `GaugeFits`, `Share` and `Highest` that of the header, and `Latest` the one
  invariant that is needed about the snapshots: the last sample of a chart is its
  snapshot's reading. The first attempt failed in `Deepens`, on
  a bound the two contents of the run do not reach: `io_row_bg` truncates each
  channel, so on the dark background red parts from green by 37 at a wait of
  67.4% and by 36 at 67.5%. A longer wait parts them at least as far as a shorter
  one, less one, which is what `TintsAreRight` now says.
* `XtaskProofs`: `AlwaysEndsClean`, `Spec => []EndsClean`. The invariant (`Clean`)
  has a part for each thing that must be in order at the end: hooks are attached
  only while `xtask` waits for their process (`Hooks`); what went wrong is not
  forgotten and what `perf` keeps is restored first (`Verdict`); and what becomes of
  each setting (`Governor`, `Turbo`, with `Perf` saying what `perf` may be). A CPU
  that the tuning did not write is as found. The governor kept is the one cpu0
  was found with, and it is kept exactly when every CPU was written; if none is
  kept, or once it is restored, a CPU that was written has what the property
  says, unless the restore was refused. `Written` is the step from a write to the
  value of one CPU.
  `WaitsShownOnce`, `Spec => []WaitsAreShownOnce`. What the deltas still owe of a
  process's counter is carried through the two halves of a tick (`Waits`, in
  `Accounted`): a wait goes from the wait under way to the counter, and from there to a
  row, each time once. `SharesAreExact` gives that a share of the interval turns
  back into the units it was made of, for the intervals that `MaxTime` admits.
  `TopListed`, `Spec => []TopIsListed`. The deltas are the shares of what
  really was run and billed in the interval (`Shares`, for CPU time as long as
  nothing was evicted), and `LeaderIsTop` shows that whichever set of `MAX_ROWS`
  `top_pids` settles on, one that fewer than `MAX_ROWS` others equal or exceed is in it.
  `LookupsAreRight`, `Spec => []LookupIsRight`, for any list of types and any cut.
  The section is a flattened sequence; that it is the records one after the other
  (`Flattened`, `SectionIs`) needs induction over their number, for which the
  smallest exception stands in, as in `BatchWalkProofs` (`Smallest` gives it).
  From there `HeaderAt` and `MemberAt` read a record's words back out of the file,
  and the invariant (`Looks`) is that a walk stands where some type begins: the
  types before it are not the struct (`Passed`), or all their positions are in
  `offsets`, each under its id (`Indexed`). `FoundField`, `MissingField` and
  `ResolvedParams` are the three ways a walk ends.
  `HooksFit`, `Spec => HooksFitTheKernel`. The invariant (`Overrides`) is what the
  lookups before the present one have settled (`Settled`): an offset each, that
  `tgid` follows `pid`, the state under one of its names, and whether `prev_state`
  is an argument. It depends on `LookupsAreRight` and on the order of the lookups.
  `TypeCorrect`, `Spec => []TypeOK`. No counter runs ahead of the clock (`Sizes`),
  the rows are at most the two cuts (`TopSize`), and the BTF reader does not leave
  its file (`Reads`), whatever the section holds and wherever it is cut.

Model-checked only: liveness, which is out of the prover's reach
(`EveryRecordIsDrained`, `WalksEnd`, `EndsWhenItShould`, `FreshIsShown`,
`ProgramEnds`). Every other property of a passing run is a theorem.

## 6. What is not modelled

* `SchedSwitch`: `sched_switch` calls both hot paths, on one switch. `CpuTime`
  and `IoWait` each have their own copy of the scheduler; no module has both, so
  nothing is said of one thread's CPU time and I/O wait together.
* Offsets and probe reads of `task.rs`: memory layout. What the reads can return
  (a state already overwritten, `signal->live`) is in `IoWait` and `ReapCycle`,
  the offsets they go through in `Startup`.
* Of the BTF reader the byte order, the arithmetic on the file's header and the
  string table.
* `/proc/meminfo`, `/proc/stat`, sysfs, `/etc/passwd`: stateless parsing.
* Of drawing the text colours, heat of the CPU figures, layout, truncation, number
  formats; panics of the terminal library.
* Log lines, the memlock limit, the texts of errors and hints.
* An interrupt of `xtask`, which ends it without `Drop`; a panic in a benchmark,
  which unwinds through the same `Drop` as an error; a test suite whose output
  cannot be read and which is then not waited for (`runner.rs:72`).
* The environment check (`bench/env.rs`), what a benchmark measures, `bench`'s
  load generators, `demo`, `packaging`, CI.

## 7. Plan

Done, in this order: `PerCpuLru`, `Meter`, `CpuTime` with proofs, `ReapCycle`
with proofs, `InflightRead`, `IoWait` with proofs, `Identity`, `BatchWalk`,
`Console`, `Btf`; then `Frame`, `Report`, `Startup`, `Xtask`, and the proofs of
`InflightRead`, `Identity`, `Console` and `Xtask`, with those about the frame,
the report, the sums of `BatchWalk` and the walks of `Btf` last.

Next:

1. `SchedSwitch`, composing `CpuTime` and `IoWait` over one scheduler: no
   nanosecond of a thread is both CPU time and I/O wait.
2. `COMM_MAP` eviction and the stale seed as a run of its own
   (`comm.rs:32-34` says an evicted entry shows as unknown).
