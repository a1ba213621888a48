----------------------------- MODULE BatchWalk -----------------------------
(***************************************************************************)
(* BatchReader::sum_per_cpu (truetop/src/batch.rs): one walk of a per-CPU  *)
(* hash map in BPF_MAP_LOOKUP_BATCH calls, while the eBPF hooks add to it, *)
(* insert into it and evict from it.                                       *)
(*                                                                         *)
(* The kernel side is external.  A call copies whole buckets, each under   *)
(* its lock, from the cursor on; it stops before a bucket that does not    *)
(* fit (ENOSPC if nothing was copied), reports ENOENT past the last one,   *)
(* or fails half way.  It leaves alone what it has no entries for: the     *)
(* scratch buffers outlive a batch and a walk.                             *)
(*                                                                         *)
(* low and peak are history variables.                                     *)
(***************************************************************************)
EXTENDS Naturals, SequencesExt

CONSTANTS
    Keys,
    NoKey,          \* what a fresh scratch slot holds
    NBuckets,       \* buckets of the map
    Bucket,         \* key -> the bucket it hashes to
    NrCpus,         \* possible CPUs: slots the kernel writes per key
    BATCH,          \* entries per call
    MaxSlot         \* bound: the value of a slot

ASSUME SizesAssumption == {NBuckets, NrCpus, BATCH} \subseteq Nat \ {0}
ASSUME BucketAssumption == Bucket \in [Keys -> 1..NBuckets]
ASSUME NoKeyAssumption == NoKey \notin Keys
ASSUME BoundAssumption == MaxSlot \in Nat

CPUs == 1..NrCpus

VARIABLES
    map,            \* the kernel's map: key -> its slots; absent = no entry
    pc,             \* the walk: idle, loop, kernel, fold, done
    bucket,         \* the call under way: the bucket it is at
    count,          \* and the entries it has written
    ret,            \* its outcome: ok, ENOENT, error
    token,          \* Cursor::token
    started,        \* Cursor::started
    keys, values,   \* the scratch buffers, values row-major
    totals,         \* the summed map
    low,            \* keys in the map since the walk began -> their sum then
    peak            \* the highest sum of each key in the map during it

kernel == <<map, bucket, count, ret>>
reader == <<pc, token, started, keys, values, totals>>
history == <<low, peak>>
vars == <<kernel, reader, history>>

TypeOK ==
    /\ DOMAIN map \subseteq Keys /\ map \in [DOMAIN map -> [CPUs -> 0..MaxSlot]]
    /\ pc \in {"idle", "loop", "kernel", "fold", "done"}
    /\ bucket \in 1..NBuckets + 1
    /\ count \in 0..BATCH
    /\ ret \in {"ok", "ENOENT", "error"}
    /\ token \in 0..NBuckets + 1
    /\ started \in BOOLEAN
    /\ keys \in [1..BATCH -> Keys \cup {NoKey}]
    /\ values \in [1..BATCH * NrCpus -> 0..MaxSlot]
    /\ DOMAIN totals \subseteq Keys /\ \A k \in DOMAIN totals : totals[k] \in Nat
    /\ DOMAIN low \subseteq DOMAIN map /\ \A k \in DOMAIN low : low[k] \in Nat
    /\ peak \in [Keys -> Nat]

Sums(m) == [k \in Keys |-> IF k \in DOMAIN m THEN SumFunction(m[k]) ELSE 0]
None == [k \in Keys |-> 0]
Empty == [k \in {} |-> 0]

(* BatchReader::new: zeroed buffers. *)
Init ==
    /\ map = Empty
    /\ pc = "idle"
    /\ bucket = 1 /\ count = 0 /\ ret = "ok"
    /\ token = 0 /\ started = FALSE
    /\ keys = [i \in 1..BATCH |-> NoKey]
    /\ values = [i \in 1..BATCH * NrCpus |-> 0]
    /\ totals = Empty
    /\ low = Empty /\ peak = None

-----------------------------------------------------------------------------
(* The hooks. *)

Walking == pc # "idle"

(* A hook adds to its CPU's slot, inserting the key if it is absent.       *)
Add(k, cpu) ==
    LET slots == IF k \in DOMAIN map THEN map[k] ELSE [c \in CPUs |-> 0] IN
    /\ slots[cpu] < MaxSlot
    /\ map' = [j \in DOMAIN map \cup {k} |->
                 IF j = k THEN [slots EXCEPT ![cpu] = @ + 1] ELSE map[j]]
    /\ peak' = IF Walking THEN [peak EXCEPT ![k] = Max({@, SumFunction(map'[k])})] ELSE peak
    /\ UNCHANGED <<bucket, count, ret, reader, low>>

(* An eviction, all slots at once. *)
Evict(k) ==
    /\ k \in DOMAIN map
    /\ map' = [j \in DOMAIN map \ {k} |-> map[j]]
    /\ low' = [j \in DOMAIN low \ {k} |-> low[j]]
    /\ UNCHANGED <<bucket, count, ret, reader, peak>>

-----------------------------------------------------------------------------
(* One call, kernel side. *)

InBucket(b) == {k \in DOMAIN map : Bucket[k] = b}

(* The bucket lock keeps inserts and evictions out while a bucket is       *)
(* copied.                                                                 *)
CopyBucket ==
    /\ pc = "kernel" /\ bucket <= NBuckets
    /\ LET new == InBucket(bucket)
           n == Cardinality(new) IN
       /\ count + n <= BATCH
       /\ keys' = [i \in 1..BATCH |->
                     IF i - count \in 1..n THEN SetToSeq(new)[i - count] ELSE keys[i]]
       /\ values' = [j \in 1..BATCH * NrCpus |->
                       LET row == (j - 1) \div NrCpus - count + 1 IN
                       IF row \in 1..n THEN map[SetToSeq(new)[row]][((j - 1) % NrCpus) + 1]
                       ELSE values[j]]
       /\ count' = count + n
    /\ bucket' = bucket + 1
    /\ UNCHANGED <<map, ret, pc, token, started, totals, history>>

(* It stops before a bucket that does not fit, or past the last one, and   *)
(* leaves the cursor there.                                                *)
Stop ==
    /\ pc = "kernel"
    /\ \/ bucket > NBuckets /\ ret' = "ENOENT"
       \/ /\ bucket <= NBuckets
          /\ count + Cardinality(InBucket(bucket)) > BATCH
          /\ ret' = IF count = 0 THEN "error" ELSE "ok"
    /\ token' = bucket
    /\ pc' = "fold"
    /\ UNCHANGED <<map, bucket, count, started, keys, values, totals, history>>

(* It fails (ENOMEM, EFAULT) with attr.count as the reader set it.         *)
Fail ==
    /\ pc = "kernel"
    /\ ret' = "error" /\ count' = BATCH
    /\ pc' = "fold"
    /\ UNCHANGED <<map, bucket, token, started, keys, values, totals, history>>

-----------------------------------------------------------------------------
(* The reader. *)

Begin ==
    /\ pc = "idle"
    /\ pc' = "loop"
    /\ totals' = Empty
    /\ token' = 0 /\ started' = FALSE
    /\ low' = Restrict(Sums(map), DOMAIN map) /\ peak' = Sums(map)
    /\ UNCHANGED <<kernel, keys, values>>

(* Seeded fault: the cursor of the last call is not passed on.             *)
LookupBatch_NullCursor ==
    /\ pc = "loop"
    /\ bucket' = 1
    /\ count' = 0
    /\ pc' = "kernel"
    /\ started' = TRUE
    /\ UNCHANGED <<map, ret, token, keys, values, totals, history>>

(* BatchAttr::new: NULL on the first call, then the kernel's cursor.       *)
LookupBatch ==
    /\ pc = "loop"
    /\ bucket' = IF started THEN token ELSE 1
    /\ count' = 0
    /\ pc' = "kernel"
    /\ started' = TRUE
    /\ UNCHANGED <<map, ret, token, keys, values, totals, history>>

(* Seeded fault: the slots of a key are strided by one CPU too few.        *)
Slots_ShortStride(i) ==
    SumFunctionOnSet(values, {j \in DOMAIN values : j - (i - 1) * (NrCpus - 1) \in CPUs})

(* The row of the i-th key: nr_cpus contiguous slots.                      *)
Slots(i) ==
    SumFunctionOnSet(values, {j \in DOMAIN values : j - (i - 1) * NrCpus \in CPUs})

(* Seeded fault: the whole buffer is folded, the stale tail with it.       *)
fold_WholeBuffer(n) ==
    [k \in DOMAIN totals \cup {keys[i] : i \in 1..BATCH} |->
        IF \E i \in 1..BATCH : keys[i] = k
        THEN Slots(CHOOSE i \in 1..BATCH : keys[i] = k) ELSE totals[k]]

(* fold: the first count entries go into totals.                           *)
fold(n) ==
    [k \in DOMAIN totals \cup {keys[i] : i \in 1..n} |->
        IF \E i \in 1..n : keys[i] = k
        THEN Slots(CHOOSE i \in 1..n : keys[i] = k) ELSE totals[k]]

(* Seeded fault: a short batch is taken for the end of the map.            *)
exhausted_Short == ret = "ENOENT" \/ count < BATCH

(* Only ENOENT ends the walk. *)
exhausted == ret = "ENOENT"

(* A failed call ends the walk with what it has; the ENOENT tail still     *)
(* carries entries; a zero-entry batch would spin.                         *)
Fold ==
    /\ pc = "fold"
    /\ totals' = IF ret = "error" THEN totals ELSE fold(count)
    /\ pc' = IF ret = "error" \/ exhausted \/ count = 0 THEN "done" ELSE "loop"
    /\ UNCHANGED <<kernel, token, started, keys, values, history>>

(* The totals go to the tick; the buffers stay as they are.                *)
Return ==
    /\ pc = "done"
    /\ pc' = "idle"
    /\ totals' = Empty
    /\ bucket' = 1 /\ count' = 0 /\ ret' = "ok" /\ token' = 0 /\ started' = FALSE
    /\ low' = Empty /\ peak' = None
    /\ UNCHANGED <<map, keys, values>>

Hook == \E k \in Keys : Evict(k) \/ \E cpu \in CPUs : Add(k, cpu)
Walk == Begin \/ LookupBatch \/ CopyBucket \/ Stop \/ Fail \/ Fold \/ Return

Next == Hook \/ Walk

Spec == Init /\ [][Next]_vars

(* The thread that walks, in user space or in the call, is scheduled.      *)
FairSpec == Spec /\ WF_vars(Walk)

-----------------------------------------------------------------------------
(* batch.rs:103-108: whatever is inserted or evicted meanwhile, and        *)
(* however the buckets straddle the calls, a walk that no call failed      *)
(* reads every key that was in the map all along, with a sum it can have   *)
(* had in that time.                                                       *)
StableKeysAreRead ==
    pc = "done" /\ ret # "error" =>
        \A k \in DOMAIN low : k \in DOMAIN totals /\ totals[k] >= low[k]

(* No key is reported with more than it had during the walk: not from an   *)
(* earlier batch or walk whose entries are still in the buffers, and not   *)
(* from the buffers of a failed call.                                      *)
NothingStaleIsRead == \A k \in DOMAIN totals : totals[k] \in 1..peak[k]

(* A walk ends, however the map changes under it.                          *)
WalksEnd == Walking ~> ~Walking
=============================================================================
