-------------------------- MODULE BatchWalkProofs --------------------------
(***************************************************************************)
(* What a walk reads, for any keys and buckets, any number of CPUs and any *)
(* length of a batch.  The sums of the model are folds; SumCounts says     *)
(* what such a fold is without induction over its definition: as many as   *)
(* there are units under it, a set that can be compared and moved.         *)
(***************************************************************************)
EXTENDS BatchWalk, FiniteSetTheorems, WellFoundedInduction, TLAPS

-----------------------------------------------------------------------------
(* A sum counts units: of each index as many as its value.                 *)
Units(f, S) == {u \in S \X (1..MaxSlot) : u[2] <= f[u[1]]}

(* The units of one index more are its own besides. *)
LEMMA UnitsOfOne ==
    ASSUME NEW S, NEW f \in [S -> 0..MaxSlot], MaxSlot \in Nat, NEW x \in S,
           IsFiniteSet(Units(f, S \ {x}))
    PROVE  /\ IsFiniteSet(Units(f, S))
           /\ Cardinality(Units(f, S)) = f[x] + Cardinality(Units(f, S \ {x}))
  <1> DEFINE mine == {x} \X (1..f[x])
             rest == Units(f, S \ {x})
  <1>1. f[x] \in 0..MaxSlot
    OBVIOUS
  <1>2. Units(f, S) = mine \cup rest
    <2>1. ASSUME NEW u \in Units(f, S)
          PROVE  u \in mine \cup rest
      BY DEF Units
    <2>2. mine \subseteq Units(f, S)
      BY <1>1 DEF Units
    <2>3. rest \subseteq Units(f, S)
      BY DEF Units
    <2> HIDE DEF mine, rest
    <2>4. QED BY <2>1, <2>2, <2>3
  <1>3. mine \cap rest = {}
    BY DEF Units
  <1>4. IsFiniteSet(mine) /\ Cardinality(mine) = f[x]
    <2>1. IsFiniteSet({x}) /\ Cardinality({x}) = 1
      BY FS_Singleton
    <2>2. IsFiniteSet(1..f[x]) /\ Cardinality(1..f[x]) = f[x]
      BY <1>1, FS_Interval
    <2>3. IsFiniteSet(mine) /\ Cardinality(mine) = Cardinality({x}) * Cardinality(1..f[x])
      BY <2>1, <2>2, FS_Product
    <2>4. QED BY <1>1, <2>1, <2>2, <2>3
  <1> HIDE DEF mine, rest
  <1>5. Cardinality(mine \cap rest) = 0
    BY <1>3, FS_EmptySet
  <1>6. IsFiniteSet(rest)
    BY DEF rest
  <1>7. /\ IsFiniteSet(mine \cup rest)
        /\ Cardinality(mine \cup rest) = Cardinality(mine) + Cardinality(rest) - Cardinality(mine \cap rest)
    BY <1>4, <1>6, FS_Union
  <1>8. Cardinality(rest) \in Nat
    BY <1>6, FS_CardinalityType
  <1>9. QED
    BY <1>1, <1>2, <1>4, <1>5, <1>7, <1>8 DEF rest

(* The sum is the count.  The counting function satisfies the equation by  *)
(* which the fold is chosen, so the fold satisfies it; and a smallest set  *)
(* on which the two differ cannot exist.                                   *)
LEMMA SumCounts ==
    ASSUME NEW S, IsFiniteSet(S), NEW f, NEW D, f \in [D -> 0..MaxSlot], S \subseteq D, MaxSlot \in Nat
    PROVE  /\ IsFiniteSet(Units(f, S))
           /\ SumFunctionOnSet(f, S) = Cardinality(Units(f, S))
  <1> DEFINE step(g) == [s \in SUBSET S |->
                            IF s = {} THEN 0
                            ELSE LET x == CHOOSE x \in s : TRUE IN f[x] + g[s \ {x}]]
             counts == [s \in SUBSET S |-> Cardinality(Units(f, s))]
             sum == CHOOSE g : g = step(g)
  <1>1. SumFunctionOnSet(f, S) = sum[S]
    BY DEF SumFunctionOnSet, FoldFunctionOnSet, MapThenFoldSet
  <1>2. IsFiniteSet(Units(f, S))
    <2>1. IsFiniteSet(1..MaxSlot)
      BY FS_Interval
    <2>2. IsFiniteSet(S \X (1..MaxSlot))
      BY <2>1, FS_Product
    <2>3. Units(f, S) \in SUBSET (S \X (1..MaxSlot))
      BY DEF Units
    <2>4. QED BY <2>2, <2>3, FS_Subset
  <1>3. ASSUME NEW s \in SUBSET S, s # {}
        PROVE  LET x == CHOOSE x \in s : TRUE IN
               /\ x \in s
               /\ Cardinality(Units(f, s)) = f[x] + Cardinality(Units(f, s \ {x}))
    <2> DEFINE x == CHOOSE x \in s : TRUE
               h == [i \in s |-> f[i]]
    <2>1. x \in s
      BY <1>3
    <2> HIDE DEF x
    <2>2. h \in [s -> 0..MaxSlot] /\ h[x] = f[x]
      BY <2>1
    <2>3. Units(h, s) = Units(f, s) /\ Units(h, s \ {x}) = Units(f, s \ {x})
      BY DEF Units
    <2>4. Units(f, s \ {x}) \in SUBSET Units(f, S)
      BY DEF Units
    <2>5. IsFiniteSet(Units(h, s \ {x}))
      BY <1>2, <2>3, <2>4, FS_Subset
    <2> HIDE DEF h
    <2>6. Cardinality(Units(h, s)) = h[x] + Cardinality(Units(h, s \ {x}))
      BY <2>1, <2>2, <2>5, UnitsOfOne
    <2>7. QED BY <2>1, <2>2, <2>3, <2>6 DEF x
  <1>4. Cardinality(Units(f, {})) = 0
    <2>1. Units(f, {}) = {}
      BY DEF Units
    <2>2. QED BY <2>1, FS_EmptySet
  <1>5. counts = step(counts)
    <2>1. ASSUME NEW s \in SUBSET S
          PROVE  counts[s] = step(counts)[s]
      <3>1. CASE s = {}
        BY <1>4, <3>1
      <3>2. CASE s # {}
        BY <1>3, <3>2
      <3>3. QED BY <3>1, <3>2
    <2>2. QED BY <2>1
  <1>6. sum = step(sum)
    <2> HIDE DEF counts, step
    <2>1. QED BY <1>5
  <1>7. ASSUME NEW s \in SUBSET S
        PROVE  sum[s] = Cardinality(Units(f, s))
    <2> HIDE DEF sum
    <2> DEFINE Bad == {t \in SUBSET S : sum[t] # Cardinality(Units(f, t))}
    <2>1. SUFFICES ASSUME Bad # {} PROVE FALSE
      OBVIOUS
    <2>2. IsWellFoundedOn(StrictSubsetOrdering(S), FiniteSubsetsOf(S)) /\ FiniteSubsetsOf(S) = SUBSET S
      BY FS_StrictSubsetOrderingWellFounded, FS_FiniteSubsetsOfFinite
    <2>3. Bad \subseteq SUBSET S
      OBVIOUS
    <2> HIDE DEF Bad
    <2>4. PICK t \in Bad : \A u \in Bad : ~(<<u, t>> \in StrictSubsetOrdering(S))
      BY <2>1, <2>2, <2>3, WFMin
    <2>5. t \in SUBSET S /\ sum[t] # Cardinality(Units(f, t))
      BY DEF Bad
    <2>6. t # {}
      BY <1>4, <1>6, <2>5
    <2> DEFINE x == CHOOSE x \in t : TRUE
    <2>7. sum[t] = f[x] + sum[t \ {x}]
      BY <1>6, <2>5, <2>6
    <2>8. x \in t /\ Cardinality(Units(f, t)) = f[x] + Cardinality(Units(f, t \ {x}))
      BY <1>3, <2>5, <2>6
    <2> HIDE DEF x
    <2>9. t \ {x} \in SUBSET S /\ <<t \ {x}, t>> \in StrictSubsetOrdering(S)
      BY <2>5, <2>8 DEF StrictSubsetOrdering
    <2>10. sum[t \ {x}] = Cardinality(Units(f, t \ {x}))
      BY <2>4, <2>9 DEF Bad
    <2>11. QED BY <2>5, <2>7, <2>8, <2>10
  <1>8. QED
    BY <1>1, <1>2, <1>7

(* A sum of values none of which is less is not less. *)
LEMMA SumGrows ==
    ASSUME NEW S, IsFiniteSet(S), NEW D, S \subseteq D, MaxSlot \in Nat,
           NEW f \in [D -> 0..MaxSlot], NEW g \in [D -> 0..MaxSlot], \A i \in S : f[i] <= g[i]
    PROVE  /\ SumFunctionOnSet(f, S) \in Nat /\ SumFunctionOnSet(g, S) \in Nat
           /\ SumFunctionOnSet(f, S) <= SumFunctionOnSet(g, S)
  <1>1. Units(f, S) \in SUBSET Units(g, S)
    <2>1. ASSUME NEW u \in Units(f, S)
          PROVE  u \in Units(g, S)
      <3>1. u \in S \X (1..MaxSlot) /\ u[2] <= f[u[1]]
        BY DEF Units
      <3>2. u[1] \in S /\ u[2] \in Nat /\ f[u[1]] \in Nat /\ g[u[1]] \in Nat /\ f[u[1]] <= g[u[1]]
        BY <3>1
      <3>3. QED BY <3>1, <3>2 DEF Units
    <2>2. QED BY <2>1
  <1>2. /\ IsFiniteSet(Units(f, S)) /\ SumFunctionOnSet(f, S) = Cardinality(Units(f, S))
        /\ IsFiniteSet(Units(g, S)) /\ SumFunctionOnSet(g, S) = Cardinality(Units(g, S))
    BY SumCounts
  <1>3. Cardinality(Units(f, S)) <= Cardinality(Units(g, S))
    BY <1>1, <1>2, FS_Subset
  <1>4. QED BY <1>2, <1>3, FS_CardinalityType

(* A value above zero makes a sum above zero. *)
LEMMA SumPositive ==
    ASSUME NEW S, IsFiniteSet(S), NEW D, S \subseteq D, MaxSlot \in Nat,
           NEW f \in [D -> 0..MaxSlot], NEW i \in S, f[i] > 0
    PROVE  SumFunctionOnSet(f, S) \in Nat \ {0}
  <1>1. <<i, 1>> \in Units(f, S)
    BY DEF Units
  <1>2. IsFiniteSet(Units(f, S)) /\ SumFunctionOnSet(f, S) = Cardinality(Units(f, S))
    BY SumCounts
  <1>3. Cardinality(Units(f, S)) # 0
    BY <1>1, <1>2, FS_EmptySet
  <1>4. QED BY <1>2, <1>3, FS_CardinalityType

-----------------------------------------------------------------------------
(* The rows of the buffer. *)
Row(i) == {j \in 1..BATCH * NrCpus : j - (i - 1) * NrCpus \in CPUs}

LEMMA Sizes == {NBuckets, NrCpus, BATCH} \subseteq Nat \ {0} /\ MaxSlot \in Nat /\ BATCH * NrCpus \in Nat
  <1>1. {NBuckets, NrCpus, BATCH} \subseteq Nat \ {0} /\ MaxSlot \in Nat
    BY SizesAssumption, BoundAssumption
  <1>2. BATCH * NrCpus \in Nat
    BY <1>1
  <1>3. QED BY <1>1, <1>2

(* The place of a slot tells the row and the CPU it is of. *)
LEMMA Strides ==
    ASSUME NEW i \in 1..BATCH, NEW c \in CPUs
    PROVE  LET j == (i - 1) * NrCpus + c IN
           /\ j \in 1..BATCH * NrCpus
           /\ (j - 1) \div NrCpus = i - 1
           /\ ((j - 1) % NrCpus) + 1 = c
  <1>1. /\ i \in Nat /\ c \in Nat /\ NrCpus \in Nat /\ BATCH \in Nat
        /\ 1 <= i /\ i <= BATCH /\ 1 <= c /\ c <= NrCpus
    BY Sizes DEF CPUs
  <1> DEFINE a == i - 1
             m == BATCH - 1
             r == c - 1
  <1>2. a \in Nat /\ m \in Nat /\ r \in Nat /\ a <= m /\ r < NrCpus
    BY <1>1
  <1>3. i = a + 1 /\ BATCH = m + 1 /\ c = r + 1
    BY <1>1
  <1> HIDE DEF a, m, r
  <1>4. a * NrCpus \in Nat /\ a * NrCpus <= m * NrCpus /\ (m + 1) * NrCpus = m * NrCpus + NrCpus
    BY <1>1, <1>2
  <1>5. (a * NrCpus + r) \div NrCpus = a /\ (a * NrCpus + r) % NrCpus = r
    BY <1>1, <1>2
  <1>6. (i - 1) * NrCpus + c = a * NrCpus + c /\ (i - 1) * NrCpus + c - 1 = a * NrCpus + r
    BY <1>1, <1>2, <1>3, <1>4
  <1>7. a * NrCpus + c \in 1..BATCH * NrCpus
    <2>1. BATCH * NrCpus = m * NrCpus + NrCpus /\ m * NrCpus \in Nat
      BY <1>1, <1>2, <1>3, <1>4
    <2>2. QED BY <1>1, <1>2, <1>4, <2>1
  <1>8. QED
    BY <1>1, <1>2, <1>3, <1>5, <1>6, <1>7

LEMMA CpusFinite == IsFiniteSet(CPUs)
  <1>1. NrCpus \in Int
    BY Sizes
  <1>2. IsFiniteSet(1..NrCpus)
    BY <1>1, FS_Interval
  <1>3. QED BY <1>2 DEF CPUs

(* A row that holds a key's slots adds up to their sum: the units are the *)
(* same, at other places.                                                  *)
LEMMA RowSum ==
    ASSUME NEW v \in [1..BATCH * NrCpus -> 0..MaxSlot], NEW slots \in [CPUs -> 0..MaxSlot],
           NEW i \in 1..BATCH, \A c \in CPUs : v[(i - 1) * NrCpus + c] = slots[c]
    PROVE  SumFunctionOnSet(v, Row(i)) = SumFunction(slots)
  <1> DEFINE W == 1..BATCH * NrCpus
             R == Row(i)
             at == [c \in CPUs |-> (i - 1) * NrCpus + c]
             moved == [u \in Units(slots, CPUs) |-> <<at[u[1]], u[2]>>]
  <1>1. (i - 1) * NrCpus \in Int /\ CPUs \subseteq Int
    BY Sizes DEF CPUs
  <1>2. \A c \in CPUs : at[c] \in R /\ v[at[c]] = slots[c]
    <2>1. \A c \in CPUs : at[c] \in W /\ at[c] - (i - 1) * NrCpus = c
      BY <1>1, Strides
    <2>2. QED BY <2>1 DEF Row
  <1>3. \A c, d \in CPUs : at[c] = at[d] => c = d
    BY <1>1
  <1>4. ASSUME NEW j \in R
        PROVE  \E c \in CPUs : at[c] = j
    <2>1. j - (i - 1) * NrCpus \in CPUs /\ j \in Int
      BY DEF Row
    <2>2. at[j - (i - 1) * NrCpus] = j
      BY <1>1, <2>1
    <2>3. QED BY <2>1, <2>2
  <1>5. R \subseteq W /\ v \in [W -> 0..MaxSlot] /\ MaxSlot \in Nat
    BY Sizes DEF Row
  <1> HIDE DEF at, R, W
  <1>6. IsFiniteSet(R)
    <2>1. at \in [CPUs -> R]
      BY <1>2 DEF at
    <2>2. at \in Bijection(CPUs, R)
      BY <1>3, <1>4, <2>1 DEF Bijection, Injection, Surjection, IsInjective
    <2>3. ExistsBijection(CPUs, R)
      BY <2>2 DEF ExistsBijection
    <2>4. QED BY <2>3, CpusFinite, FS_Bijection
  <1>7. \A u \in Units(slots, CPUs) :
            u[1] \in CPUs /\ u[2] \in 1..MaxSlot /\ u[2] <= slots[u[1]] /\ u = <<u[1], u[2]>>
    BY DEF Units
  <1>8. \A c \in CPUs, n \in 1..MaxSlot : n <= slots[c] => <<c, n>> \in Units(slots, CPUs)
    BY DEF Units
  <1>9. moved \in Bijection(Units(slots, CPUs), Units(v, R))
    <2>1. \A u \in Units(slots, CPUs) : moved[u] \in Units(v, R)
      BY <1>2, <1>7 DEF Units
    <2>2. ASSUME NEW u \in Units(slots, CPUs), NEW w \in Units(slots, CPUs), moved[u] = moved[w]
          PROVE  u = w
      <3>1. at[u[1]] = at[w[1]] /\ u[2] = w[2]
        BY <2>2
      <3>2. QED BY <1>3, <1>7, <3>1
    <2>3. ASSUME NEW w \in Units(v, R)
          PROVE  \E u \in Units(slots, CPUs) : moved[u] = w
      <3>1. w[1] \in R /\ w[2] \in 1..MaxSlot /\ w[2] <= v[w[1]] /\ w = <<w[1], w[2]>>
        BY DEF Units
      <3>2. PICK c \in CPUs : at[c] = w[1]
        BY <1>4, <3>1
      <3>3. <<c, w[2]>> \in Units(slots, CPUs)
        BY <1>2, <1>8, <3>1, <3>2
      <3>4. moved[<<c, w[2]>>] = <<at[c], w[2]>>
        BY <3>3
      <3>5. QED BY <3>1, <3>2, <3>3, <3>4
    <2> HIDE DEF moved
    <2>4. moved \in [Units(slots, CPUs) -> Units(v, R)]
      BY <2>1 DEF moved
    <2>5. QED BY <2>2, <2>3, <2>4 DEF Bijection, Injection, Surjection, IsInjective
  <1>10. IsFiniteSet(Units(slots, CPUs)) /\ SumFunctionOnSet(slots, CPUs) = Cardinality(Units(slots, CPUs))
    BY <1>5, CpusFinite, SumCounts
  <1>11. SumFunctionOnSet(v, R) = Cardinality(Units(v, R))
    BY <1>5, <1>6, SumCounts
  <1> HIDE DEF moved
  <1>12. ExistsBijection(Units(slots, CPUs), Units(v, R))
    BY <1>9 DEF ExistsBijection
  <1>13. Cardinality(Units(v, R)) = Cardinality(Units(slots, CPUs))
    BY <1>10, <1>12, FS_Bijection
  <1>14. SumFunction(slots) = SumFunctionOnSet(slots, CPUs)
    BY DEF SumFunction
  <1>15. QED BY <1>10, <1>11, <1>13, <1>14 DEF R

(* A row that is left alone keeps its sum. *)
LEMMA RowStays ==
    ASSUME NEW v \in [1..BATCH * NrCpus -> 0..MaxSlot], NEW w \in [1..BATCH * NrCpus -> 0..MaxSlot],
           NEW i \in 1..BATCH, \A c \in CPUs : w[(i - 1) * NrCpus + c] = v[(i - 1) * NrCpus + c]
    PROVE  SumFunctionOnSet(w, Row(i)) = SumFunctionOnSet(v, Row(i))
  <1> DEFINE slots == [c \in CPUs |-> v[(i - 1) * NrCpus + c]]
  <1>1. slots \in [CPUs -> 0..MaxSlot]
    BY Strides
  <1>2. /\ \A c \in CPUs : v[(i - 1) * NrCpus + c] = slots[c]
        /\ \A c \in CPUs : w[(i - 1) * NrCpus + c] = slots[c]
    OBVIOUS
  <1> HIDE DEF slots
  <1>3. SumFunctionOnSet(v, Row(i)) = SumFunction(slots)
    BY <1>1, <1>2, RowSum
  <1>4. SumFunctionOnSet(w, Row(i)) = SumFunction(slots)
    BY <1>1, <1>2, RowSum
  <1>5. QED BY <1>3, <1>4

(* A finite set put in sequence: all of it, at as many places. *)
LEMMA SequenceOf ==
    ASSUME NEW S, IsFiniteSet(S)
    PROVE  /\ Cardinality(S) \in Nat
           /\ SetToSeq(S) \in [1..Cardinality(S) -> S]
           /\ \A x \in S : \E i \in 1..Cardinality(S) : SetToSeq(S)[i] = x
  <1> DEFINE n == Cardinality(S)
  <1>1. n \in Nat /\ ExistsBijection(1..n, S)
    BY FS_CardinalityType
  <1>2. \E f \in [1..n -> S] : IsInjective(f)
    BY <1>1 DEF ExistsBijection, Bijection, Injection
  <1>3. SetToSeq(S) \in [1..n -> S] /\ IsInjective(SetToSeq(S))
    BY <1>2 DEF SetToSeq
  <1>4. SetToSeq(S) \in Injection(1..n, S)
    BY <1>3 DEF Injection
  <1>5. IsFiniteSet(1..n) /\ Cardinality(1..n) = n
    BY <1>1, FS_Interval
  <1> HIDE DEF n
  <1>6. SetToSeq(S) \in Surjection(1..n, S)
    <2>1. Cardinality(1..n) = Cardinality(S) <=> SetToSeq(S) \in Surjection(1..n, S)
      BY <1>4, FS_Injection
    <2>2. QED BY <1>5, <2>1 DEF n
  <1>7. QED BY <1>1, <1>3, <1>6 DEF n, Surjection

-----------------------------------------------------------------------------
(* Where a walk stands.  A sum is right for a key if the key can have had  *)
(* it since the walk began.                                                *)
Right(k, v) == v \in 1..peak[k] /\ (k \in DOMAIN low => low[k] <= v)
IsRead(k) == k \in DOMAIN totals /\ low[k] <= totals[k]
IsCopied(k) == \E i \in 1..count : keys[i] = k

(* An entry has been added to, by no more than it may show. *)
Entries ==
    /\ IsFiniteSet(DOMAIN map)
    /\ \A k \in DOMAIN map : \E c \in CPUs : map[k][c] > 0
    /\ Walking => \A k \in DOMAIN map : Right(k, SumFunction(map[k]))

(* What the call under way has copied is right, and so is what is folded.  *)
Buffer ==
    pc \in {"kernel", "fold"} /\ ret # "error" =>
        \A i \in 1..count : keys[i] \in Keys /\ Right(keys[i], Slots(i))

(* Every key that has been there all along and whose bucket is behind the  *)
(* cursor was read, or copied by this call.                                *)
Behind ==
    /\ pc \in {"idle", "loop", "kernel"} => ret = "ok"
    /\ pc = "loop" =>
          /\ started => token > 0
          /\ \A k \in DOMAIN low : started /\ Bucket[k] < token => IsRead(k)
    /\ pc = "kernel" => \A k \in DOMAIN low : Bucket[k] < bucket => IsRead(k) \/ IsCopied(k)
    /\ pc = "fold" /\ ret # "error" =>
          /\ token > 0 /\ (ret = "ENOENT" => token > NBuckets) /\ (ret = "ok" => count > 0)
          /\ \A k \in DOMAIN low : Bucket[k] < token => IsRead(k) \/ IsCopied(k)
    /\ pc = "done" /\ ret # "error" => \A k \in DOMAIN low : IsRead(k)

WInv == TypeOK /\ Entries /\ Buffer /\ Behind /\ NothingStaleIsRead

-----------------------------------------------------------------------------
(* Before the first walk there is nothing to be wrong. *)
LEMMA InitWInv == Init => WInv
  <1> SUFFICES ASSUME Init PROVE WInv
    OBVIOUS
  <1>1. NBuckets \in Nat \ {0} /\ BATCH \in Nat \ {0} /\ MaxSlot \in Nat /\ BATCH * NrCpus \in Nat
    BY Sizes
  <1>2. DOMAIN Empty = {} /\ None \in [Keys -> Nat]
    BY DEF Empty, None
  <1>3. /\ map = Empty /\ totals = Empty /\ low = Empty /\ peak = None
        /\ pc = "idle" /\ bucket = 1 /\ count = 0 /\ ret = "ok" /\ token = 0 /\ started = FALSE
    BY DEF Init
  <1>4. TypeOK
    <2>1. keys \in [1..BATCH -> Keys \cup {NoKey}]
      BY DEF Init
    <2>2. values \in [1..BATCH * NrCpus -> 0..MaxSlot]
      BY <1>1 DEF Init
    <2>3. map \in [DOMAIN map -> [CPUs -> 0..MaxSlot]] /\ DOMAIN map \subseteq Keys
      BY <1>3 DEF Empty
    <2>4. /\ pc \in {"idle", "loop", "kernel", "fold", "done"}
          /\ bucket \in 1..NBuckets + 1 /\ count \in 0..BATCH /\ token \in 0..NBuckets + 1
          /\ ret \in {"ok", "ENOENT", "error"} /\ started \in BOOLEAN
      <3>1. 1 \in 1..NBuckets + 1 /\ 0 \in 0..BATCH /\ 0 \in 0..NBuckets + 1
        BY <1>1
      <3>2. QED BY <1>3, <3>1
    <2>5. /\ DOMAIN totals \subseteq Keys /\ \A k \in DOMAIN totals : totals[k] \in Nat
          /\ DOMAIN low \subseteq DOMAIN map /\ \A k \in DOMAIN low : low[k] \in Nat
          /\ peak \in [Keys -> Nat]
      BY <1>2, <1>3
    <2>6. QED BY <2>1, <2>2, <2>3, <2>4, <2>5 DEF TypeOK
  <1>5. Entries
    BY <1>2, <1>3, FS_EmptySet DEF Entries, Walking
  <1>6. QED
    BY <1>2, <1>3, <1>4, <1>5 DEF WInv, Buffer, Behind, NothingStaleIsRead

(* The hooks. *)
LEMMA SlotSums ==
    ASSUME NEW slots \in [CPUs -> 0..MaxSlot]
    PROVE  /\ SumFunction(slots) \in Nat
           /\ (\E c \in CPUs : slots[c] > 0) => SumFunction(slots) > 0
  <1>1. SumFunction(slots) = SumFunctionOnSet(slots, CPUs)
    BY DEF SumFunction
  <1>2. SumFunctionOnSet(slots, CPUs) \in Nat
    <2>1. \A c \in CPUs : slots[c] <= slots[c]
      BY Sizes
    <2>2. CPUs \subseteq CPUs /\ MaxSlot \in Nat
      BY Sizes
    <2>3. QED BY <2>1, <2>2, CpusFinite, SumGrows
  <1>3. ASSUME NEW c \in CPUs, slots[c] > 0
        PROVE  SumFunctionOnSet(slots, CPUs) \in Nat \ {0}
    BY <1>3, CpusFinite, Sizes, SumPositive
  <1>4. QED BY <1>1, <1>2, <1>3

LEMMA MaxOfTwo ==
    ASSUME NEW a \in Nat, NEW b \in Nat
    PROVE  Max({a, b}) \in Nat /\ Max({a, b}) >= a /\ Max({a, b}) >= b
  <1>1. \E x \in {a, b} : \A y \in {a, b} : x >= y
    BY SMT
  <1>2. Max({a, b}) \in {a, b} /\ \A y \in {a, b} : Max({a, b}) >= y
    BY <1>1 DEF Max
  <1>3. QED BY <1>2

(* What was right stays so while a key may have been given more, or less   *)
(* is asked for.                                                           *)
LEMMA RightStays ==
    ASSUME WInv, TypeOK', UNCHANGED reader, UNCHANGED <<bucket, count, ret>>, Entries',
           \A k \in Keys : peak[k] <= peak'[k],
           DOMAIN low' \subseteq DOMAIN low, \A k \in DOMAIN low' : low'[k] = low[k]
    PROVE  WInv'
  <1>1. ASSUME NEW k \in Keys, NEW v, Right(k, v)
        PROVE  Right(k, v)'
    BY <1>1 DEF Right, WInv, TypeOK
  <1>2. UNCHANGED <<pc, token, started, keys, values, totals, bucket, count, ret>>
    BY DEF reader
  <1>3. \A i : Slots(i)' = Slots(i)
    BY <1>2 DEF Slots
  <1>4. \A k \in DOMAIN low' : IsRead(k)' = IsRead(k) /\ IsCopied(k)' = IsCopied(k)
    BY <1>2 DEF IsRead, IsCopied
  <1>5. Buffer'
    <2> SUFFICES ASSUME pc \in {"kernel", "fold"}, ret # "error", NEW i \in 1..count
                 PROVE  keys[i] \in Keys /\ Right(keys[i], Slots(i))'
      BY <1>2, <1>3 DEF Buffer
    <2>1. keys[i] \in Keys /\ Right(keys[i], Slots(i))
      BY DEF WInv, Buffer
    <2>2. QED BY <1>1, <1>2, <1>3, <2>1 DEF Right
  <1>6. Behind'
    BY <1>2, <1>4 DEF WInv, Behind
  <1>7. NothingStaleIsRead'
    <2> SUFFICES ASSUME NEW k \in DOMAIN totals PROVE totals[k] \in 1..peak'[k]
      BY <1>2 DEF NothingStaleIsRead
    <2>1. totals[k] \in 1..peak[k] /\ k \in Keys
      BY DEF WInv, NothingStaleIsRead, TypeOK
    <2>2. peak[k] <= peak'[k] /\ peak[k] \in Nat /\ peak'[k] \in Nat
      BY <2>1 DEF WInv, TypeOK
    <2>3. QED BY <2>1, <2>2
  <1>8. QED
    BY <1>5, <1>6, <1>7 DEF WInv

LEMMA AddStep ==
    ASSUME WInv, NEW k \in Keys, NEW cpu \in CPUs, Add(k, cpu)
    PROVE  WInv'
  <1> DEFINE slots == IF k \in DOMAIN map THEN map[k] ELSE [c \in CPUs |-> 0]
             more == [slots EXCEPT ![cpu] = @ + 1]
  <1>0. TypeOK /\ Entries /\ MaxSlot \in Nat
    BY Sizes DEF WInv
  <1>1. slots \in [CPUs -> 0..MaxSlot]
    BY <1>0 DEF TypeOK
  <1>2. /\ slots[cpu] < MaxSlot
        /\ map' = [j \in DOMAIN map \cup {k} |-> IF j = k THEN more ELSE map[j]]
        /\ peak' = IF Walking THEN [peak EXCEPT ![k] = Max({@, SumFunction(map'[k])})] ELSE peak
        /\ UNCHANGED <<bucket, count, ret, reader, low>>
    BY DEF Add
  <1>3. k \in DOMAIN map => slots = map[k]
    OBVIOUS
  <1> HIDE DEF slots
  <1>4. more \in [CPUs -> 0..MaxSlot] /\ more[cpu] > 0 /\ \A c \in CPUs : slots[c] <= more[c]
    BY <1>0, <1>1, <1>2
  <1> HIDE DEF more
  <1>5. /\ DOMAIN map' = DOMAIN map \cup {k} /\ map'[k] = more
        /\ \A j \in DOMAIN map : j # k => map'[j] = map[j]
    BY <1>2
  <1>6. SumFunction(more) \in Nat \ {0} /\ SumFunction(slots) <= SumFunction(more)
    <2>1. CPUs \subseteq CPUs
      OBVIOUS
    <2>2. SumFunctionOnSet(slots, CPUs) <= SumFunctionOnSet(more, CPUs)
      BY <1>0, <1>1, <1>4, <2>1, CpusFinite, SumGrows
    <2>3. SumFunction(slots) <= SumFunction(more)
      <3>1. SumFunction(slots) = SumFunctionOnSet(slots, CPUs)
        BY <1>1 DEF SumFunction
      <3>2. SumFunction(more) = SumFunctionOnSet(more, CPUs)
        BY <1>4 DEF SumFunction
      <3>3. QED BY <2>2, <3>1, <3>2
    <2>4. QED BY <1>4, <2>3, SlotSums
  <1>7. /\ peak' \in [Keys -> Nat]
        /\ \A j \in Keys : peak[j] <= peak'[j]
        /\ Walking => SumFunction(more) <= peak'[k]
    <2>1. CASE Walking
      <3>1. peak' = [peak EXCEPT ![k] = Max({peak[k], SumFunction(more)})]
        BY <1>2, <1>5, <2>1
      <3>2. peak \in [Keys -> Nat] /\ peak[k] \in Nat
        BY <1>0 DEF TypeOK
      <3>3. /\ Max({peak[k], SumFunction(more)}) \in Nat
            /\ Max({peak[k], SumFunction(more)}) >= peak[k]
            /\ Max({peak[k], SumFunction(more)}) >= SumFunction(more)
        BY <1>6, <3>2, MaxOfTwo
      <3>4. QED BY <1>6, <3>1, <3>2, <3>3
    <2>2. CASE ~Walking
      BY <1>0, <1>2, <2>2 DEF TypeOK
    <2>3. QED BY <2>1, <2>2
  <1>8. TypeOK'
    <2>1. map' \in [DOMAIN map' -> [CPUs -> 0..MaxSlot]]
      BY <1>0, <1>2, <1>4 DEF TypeOK
    <2>2. DOMAIN map' \subseteq Keys /\ DOMAIN low' \subseteq DOMAIN map'
      BY <1>0, <1>2, <1>5 DEF TypeOK
    <2>3. QED BY <1>0, <1>2, <1>7, <2>1, <2>2 DEF TypeOK, reader
  <1>9. Entries'
    <2>1. IsFiniteSet(DOMAIN map')
      BY <1>0, <1>5, FS_AddElement DEF Entries
    <2>2. ASSUME NEW j \in DOMAIN map'
          PROVE  \E c \in CPUs : map'[j][c] > 0
      BY <1>0, <1>4, <1>5 DEF Entries
    <2>3. ASSUME Walking', NEW j \in DOMAIN map'
          PROVE  Right(j, SumFunction(map[j]))'
      <3>0. Walking
        BY <1>2, <2>3 DEF Walking, reader
      <3>1. CASE j = k
        <4>1. k \in DOMAIN low => low[k] <= SumFunction(more)
          <5>1. SUFFICES ASSUME k \in DOMAIN low PROVE low[k] <= SumFunction(more)
            OBVIOUS
          <5>2. k \in DOMAIN map /\ low[k] \in Nat
            BY <1>0, <5>1 DEF TypeOK
          <5>3. low[k] <= SumFunction(slots)
            BY <1>0, <1>3, <3>0, <5>1, <5>2 DEF Entries, Right
          <5>4. QED BY <1>1, <1>6, <5>2, <5>3, SlotSums
        <4>2. SumFunction(more) \in 1..peak'[k]
          BY <1>6, <1>7, <3>0
        <4>3. QED BY <1>2, <1>5, <3>1, <4>1, <4>2 DEF Right
      <3>2. CASE j # k
        <4>1. j \in DOMAIN map /\ map'[j] = map[j] /\ j \in Keys
          BY <1>0, <1>5, <3>2 DEF TypeOK
        <4>2. Right(j, SumFunction(map[j]))
          BY <1>0, <3>0, <4>1 DEF Entries
        <4>3. peak[j] \in Nat /\ peak'[j] \in Nat /\ peak[j] <= peak'[j]
          BY <1>0, <1>7, <4>1 DEF TypeOK
        <4>4. SumFunction(map[j]) \in 1..peak'[j]
          BY <4>2, <4>3 DEF Right
        <4>5. QED BY <1>2, <4>1, <4>2, <4>4 DEF Right
      <3>3. QED BY <3>1, <3>2
    <2>4. QED BY <2>1, <2>2, <2>3 DEF Entries
  <1>10. QED
    BY <1>2, <1>7, <1>8, <1>9, RightStays

LEMMA EvictStep ==
    ASSUME WInv, NEW k \in Keys, Evict(k)
    PROVE  WInv'
  <1>1. /\ map' = [j \in DOMAIN map \ {k} |-> map[j]]
        /\ low' = [j \in DOMAIN low \ {k} |-> low[j]]
        /\ UNCHANGED <<bucket, count, ret, reader, peak>>
    BY DEF Evict
  <1>2. TypeOK /\ Entries
    BY DEF WInv
  <1>3. TypeOK'
    <2>1. map' \in [DOMAIN map' -> [CPUs -> 0..MaxSlot]] /\ DOMAIN map' \subseteq Keys
      BY <1>1, <1>2 DEF TypeOK
    <2>2. DOMAIN low' \subseteq DOMAIN map' /\ \A j \in DOMAIN low' : low'[j] \in Nat
      BY <1>1, <1>2 DEF TypeOK
    <2>3. QED BY <1>1, <1>2, <2>1, <2>2 DEF TypeOK, reader
  <1>4. Entries'
    <2>1. IsFiniteSet(DOMAIN map')
      BY <1>1, <1>2, FS_RemoveElement DEF Entries
    <2>2. \A j \in DOMAIN map' : j \in DOMAIN map /\ map'[j] = map[j]
      BY <1>1
    <2>3. ASSUME Walking', NEW j \in DOMAIN map'
          PROVE  Right(j, SumFunction(map[j]))'
      <3>1. Right(j, SumFunction(map[j]))
        BY <1>1, <1>2, <2>2, <2>3 DEF Entries, Walking, reader
      <3>2. QED BY <1>1, <2>2, <3>1 DEF Right
    <2>4. QED BY <1>2, <2>1, <2>2, <2>3 DEF Entries
  <1>5. \A j \in Keys : peak[j] <= peak'[j]
    BY <1>1, <1>2 DEF TypeOK
  <1>6. /\ DOMAIN low' \subseteq DOMAIN low /\ \A j \in DOMAIN low' : low'[j] = low[j]
        /\ UNCHANGED reader /\ UNCHANGED <<bucket, count, ret>>
    BY <1>1
  <1>7. QED
    BY <1>3, <1>4, <1>5, <1>6, RightStays

-----------------------------------------------------------------------------
(* The reader and the call: the map and its history stand still. *)
LEMMA EntriesStay ==
    ASSUME Entries, Walking, UNCHANGED <<map, low, peak>>
    PROVE  Entries'
  BY DEF Entries, Right

LEMMA BeginStep ==
    ASSUME WInv, Begin
    PROVE  WInv'
  <1>1. /\ pc = "idle" /\ pc' = "loop" /\ totals' = Empty /\ token' = 0 /\ started' = FALSE
        /\ low' = Restrict(Sums(map), DOMAIN map) /\ peak' = Sums(map)
        /\ UNCHANGED <<map, bucket, count, ret, keys, values>>
    BY DEF Begin, kernel
  <1>2. TypeOK /\ Entries /\ ret = "ok" /\ NBuckets \in Nat
    BY <1>1, Sizes DEF WInv, Behind
  <1>3. ASSUME NEW k \in DOMAIN map
        PROVE  /\ k \in Keys
               /\ SumFunction(map[k]) \in Nat /\ SumFunction(map[k]) > 0
    <2>1. k \in Keys /\ map[k] \in [CPUs -> 0..MaxSlot] /\ \E c \in CPUs : map[k][c] > 0
      BY <1>2 DEF TypeOK, Entries
    <2>2. QED BY <2>1, SlotSums
  <1>4. DOMAIN totals' = {}
    BY <1>1 DEF Empty
  <1>5. peak' \in [Keys -> Nat] /\ \A k \in DOMAIN map : peak'[k] = SumFunction(map[k])
    BY <1>1, <1>3 DEF Sums
  <1>6. DOMAIN low' = DOMAIN map /\ \A k \in DOMAIN map : low'[k] = SumFunction(map[k])
    BY <1>1, <1>3 DEF Sums, Restrict
  <1>7. TypeOK'
    <2>1. DOMAIN totals' \subseteq Keys /\ \A k \in DOMAIN totals' : totals'[k] \in Nat
      BY <1>4
    <2>2. DOMAIN low' \subseteq DOMAIN map' /\ \A k \in DOMAIN low' : low'[k] \in Nat
      BY <1>1, <1>3, <1>6
    <2>3. token' \in 0..NBuckets + 1
      BY <1>1, <1>2
    <2>4. QED BY <1>1, <1>2, <1>5, <2>1, <2>2, <2>3 DEF TypeOK
  <1>8. Entries'
    <2>1. ASSUME NEW k \in DOMAIN map'
          PROVE  Right(k, SumFunction(map[k]))'
      BY <1>1, <1>3, <1>5, <1>6 DEF Right
    <2>2. QED BY <1>1, <1>2, <2>1 DEF Entries
  <1>9. QED
    BY <1>1, <1>2, <1>4, <1>7, <1>8 DEF WInv, Buffer, Behind, NothingStaleIsRead

LEMMA LookupBatchStep ==
    ASSUME WInv, LookupBatch
    PROVE  WInv'
  <1>1. /\ pc = "loop" /\ pc' = "kernel" /\ count' = 0 /\ started' = TRUE
        /\ bucket' = IF started THEN token ELSE 1
        /\ UNCHANGED <<map, ret, token, keys, values, totals, low, peak>>
    BY DEF LookupBatch, history
  <1>2. TypeOK /\ Entries /\ Behind /\ NothingStaleIsRead /\ ret = "ok" /\ NBuckets \in Nat /\ BATCH \in Nat
    BY <1>1, Sizes DEF WInv, Behind
  <1>3. bucket' \in 1..NBuckets + 1
    BY <1>1, <1>2, Sizes DEF TypeOK, Behind
  <1>4. TypeOK'
    BY <1>1, <1>2, <1>3 DEF TypeOK
  <1>5. Entries'
    BY <1>1, <1>2, EntriesStay DEF Walking
  <1>6. \A k \in DOMAIN low : IsRead(k)' = IsRead(k)
    BY <1>1 DEF IsRead
  <1>7. \A k \in DOMAIN low : Bucket[k] \in Nat /\ Bucket[k] >= 1
    BY <1>2, BucketAssumption DEF TypeOK
  <1>8. Behind'
    BY <1>1, <1>2, <1>6, <1>7 DEF Behind
  <1>9. QED
    BY <1>1, <1>2, <1>4, <1>5, <1>8 DEF WInv, Buffer, NothingStaleIsRead

LEMMA StopStep ==
    ASSUME WInv, Stop
    PROVE  WInv'
  <1>1. /\ pc = "kernel" /\ pc' = "fold" /\ token' = bucket
        /\ \/ bucket > NBuckets /\ ret' = "ENOENT"
           \/ bucket <= NBuckets /\ ret' = IF count = 0 THEN "error" ELSE "ok"
        /\ UNCHANGED <<map, bucket, count, started, keys, values, totals, low, peak>>
    BY DEF Stop, history
  <1>2. TypeOK /\ Entries /\ Buffer /\ Behind /\ NothingStaleIsRead /\ ret = "ok" /\ NBuckets \in Nat /\ BATCH \in Nat
    BY <1>1, Sizes DEF WInv, Behind
  <1>3. TypeOK'
    BY <1>1, <1>2 DEF TypeOK
  <1>4. Entries'
    BY <1>1, <1>2, EntriesStay DEF Walking
  <1>5. \A i : Slots(i)' = Slots(i)
    BY <1>1 DEF Slots
  <1>6. Buffer'
    BY <1>1, <1>2, <1>5 DEF Buffer, Right
  <1>7. \A k \in DOMAIN low : IsRead(k)' = IsRead(k) /\ IsCopied(k)' = IsCopied(k)
    BY <1>1 DEF IsRead, IsCopied
  <1>8. count \in Nat /\ bucket \in Nat /\ bucket > 0
    BY <1>2 DEF TypeOK
  <1>9. Behind'
    BY <1>1, <1>2, <1>7, <1>8 DEF Behind
  <1>10. QED
    BY <1>1, <1>2, <1>3, <1>4, <1>6, <1>9 DEF WInv, NothingStaleIsRead

LEMMA FailStep ==
    ASSUME WInv, Fail
    PROVE  WInv'
  <1>1. /\ pc = "kernel" /\ pc' = "fold" /\ ret' = "error" /\ count' = BATCH
        /\ UNCHANGED <<map, bucket, token, started, keys, values, totals, low, peak>>
    BY DEF Fail, history
  <1>2. TypeOK /\ Entries /\ NothingStaleIsRead /\ BATCH \in Nat
    BY Sizes DEF WInv
  <1>3. TypeOK'
    BY <1>1, <1>2 DEF TypeOK
  <1>4. Entries'
    BY <1>1, <1>2, EntriesStay DEF Walking
  <1>5. QED
    BY <1>1, <1>2, <1>3, <1>4 DEF WInv, Buffer, Behind, NothingStaleIsRead

LEMMA ReturnStep ==
    ASSUME WInv, Return
    PROVE  WInv'
  <1>1. /\ pc' = "idle" /\ totals' = Empty /\ low' = Empty /\ peak' = None
        /\ bucket' = 1 /\ count' = 0 /\ ret' = "ok" /\ token' = 0 /\ started' = FALSE
        /\ UNCHANGED <<map, keys, values>>
    BY DEF Return
  <1>2. TypeOK /\ Entries /\ NBuckets \in Nat /\ BATCH \in Nat
    BY Sizes DEF WInv
  <1>3. DOMAIN totals' = {} /\ DOMAIN low' = {} /\ peak' \in [Keys -> Nat]
    BY <1>1 DEF Empty, None
  <1>4. TypeOK'
    <2>1. 1 \in 1..NBuckets + 1 /\ 0 \in 0..BATCH /\ 0 \in 0..NBuckets + 1
      BY <1>2
    <2>2. QED BY <1>1, <1>2, <1>3, <2>1 DEF TypeOK
  <1>5. Entries'
    BY <1>1, <1>2 DEF Entries, Walking
  <1>6. QED
    BY <1>1, <1>3, <1>4, <1>5 DEF WInv, Buffer, Behind, NothingStaleIsRead

(* What is folded was copied by this call, whatever else the buffer holds. *)
LEMMA FoldStep ==
    ASSUME WInv, Fold
    PROVE  WInv'
  <1>1. /\ pc = "fold"
        /\ totals' = IF ret = "error" THEN totals ELSE fold(count)
        /\ pc' = IF ret = "error" \/ ret = "ENOENT" \/ count = 0 THEN "done" ELSE "loop"
        /\ UNCHANGED <<map, bucket, count, ret, token, started, keys, values, low, peak>>
    BY DEF Fold, kernel, history, exhausted
  <1>2. TypeOK /\ Entries /\ Buffer /\ Behind /\ NothingStaleIsRead
    BY DEF WInv
  <1>3. Entries'
    BY <1>1, <1>2, EntriesStay DEF Walking
  <1>4. CASE ret = "error"
    <2>1. TypeOK'
      BY <1>1, <1>2, <1>4 DEF TypeOK
    <2>2. QED
      BY <1>1, <1>2, <1>3, <1>4, <2>1 DEF WInv, Buffer, Behind, NothingStaleIsRead
  <1>5. CASE ret # "error"
    <2> DEFINE of(k) == CHOOSE i \in 1..count : keys[i] = k
    <2>1. /\ DOMAIN totals' = DOMAIN totals \cup {keys[i] : i \in 1..count}
          /\ \A k \in DOMAIN totals' :
                totals'[k] = IF IsCopied(k) THEN Slots(of(k)) ELSE totals[k]
      BY <1>1, <1>5 DEF fold, IsCopied
    <2>2. ASSUME NEW k, IsCopied(k)
          PROVE  k \in DOMAIN totals' /\ k \in Keys /\ Right(k, totals'[k])
      <3>1. of(k) \in 1..count /\ keys[of(k)] = k
        BY <2>2 DEF IsCopied
      <3> HIDE DEF of
      <3>2. k \in Keys /\ Right(k, Slots(of(k)))
        BY <1>1, <1>2, <1>5, <3>1 DEF Buffer
      <3>3. k \in DOMAIN totals'
        BY <2>1, <3>1
      <3>4. totals'[k] = Slots(of(k))
        BY <2>1, <2>2, <3>3
      <3>5. QED BY <3>2, <3>3, <3>4
    <2>3. ASSUME NEW k, ~IsCopied(k)
          PROVE  /\ k \in DOMAIN totals <=> k \in DOMAIN totals'
                 /\ k \in DOMAIN totals' => totals'[k] = totals[k]
      BY <2>1, <2>3 DEF IsCopied
    <2> HIDE DEF of
    <2>4. NothingStaleIsRead'
      <3> SUFFICES ASSUME NEW k \in DOMAIN totals' PROVE totals'[k] \in 1..peak[k]
        BY <1>1 DEF NothingStaleIsRead
      <3>1. QED BY <1>2, <2>2, <2>3 DEF NothingStaleIsRead, Right
    <2>5. TypeOK'
      <3>1. DOMAIN totals' \subseteq Keys
        BY <1>2, <2>2, <2>3 DEF TypeOK
      <3>2. ASSUME NEW k \in DOMAIN totals'
            PROVE  totals'[k] \in Nat
        <4>1. totals'[k] \in 1..peak[k] /\ peak[k] \in Nat
          BY <1>1, <1>2, <2>4, <3>1 DEF NothingStaleIsRead, TypeOK
        <4>2. QED BY <4>1
      <3>3. QED BY <1>1, <1>2, <3>1, <3>2 DEF TypeOK
    <2>6. ASSUME NEW k \in DOMAIN low, Bucket[k] < token
          PROVE  IsRead(k)'
      <3>1. CASE IsCopied(k)
        BY <1>1, <2>2, <3>1 DEF IsRead, Right
      <3>2. CASE ~IsCopied(k)
        BY <1>1, <1>2, <1>5, <2>3, <2>6, <3>2 DEF IsRead, Behind
      <3>3. QED BY <3>1, <3>2
    <2>7. /\ token > 0 /\ (ret = "ENOENT" => token > NBuckets) /\ (ret = "ok" => count > 0)
          /\ ret \in {"ok", "ENOENT"} /\ token \in Nat /\ NBuckets \in Nat /\ count \in Nat
      BY <1>1, <1>2, <1>5, Sizes DEF Behind, TypeOK
    <2>8. \A k \in DOMAIN low : Bucket[k] \in Nat /\ Bucket[k] <= NBuckets
      BY <1>2, <2>7, BucketAssumption DEF TypeOK
    <2>9. Behind'
      <3>1. CASE ret = "ok"
        BY <1>1, <2>6, <2>7, <3>1 DEF Behind
      <3>2. CASE ret = "ENOENT"
        BY <1>1, <2>6, <2>7, <2>8, <3>2 DEF Behind
      <3>3. QED BY <2>7, <3>1, <3>2
    <2>10. QED
      BY <1>1, <1>3, <2>4, <2>5, <2>9 DEF WInv, Buffer
  <1>6. QED BY <1>4, <1>5

(* A bucket is copied behind the entries of this call: their rows stay as  *)
(* they are, and the new rows hold the slots of the bucket's keys.         *)
LEMMA CopyBucketStep ==
    ASSUME WInv, CopyBucket
    PROVE  WInv'
  <1> DEFINE new == InBucket(bucket)
             n == Cardinality(new)
             s == SetToSeq(new)
  <1>1. /\ pc = "kernel" /\ bucket <= NBuckets /\ count + n <= BATCH
        /\ keys' = [i \in 1..BATCH |-> IF i - count \in 1..n THEN s[i - count] ELSE keys[i]]
        /\ values' = [j \in 1..BATCH * NrCpus |->
                        IF (j - 1) \div NrCpus - count + 1 \in 1..n
                        THEN map[s[(j - 1) \div NrCpus - count + 1]][((j - 1) % NrCpus) + 1]
                        ELSE values[j]]
        /\ count' = count + n /\ bucket' = bucket + 1
        /\ UNCHANGED <<map, ret, pc, token, started, totals, low, peak>>
    BY DEF CopyBucket, history
  <1>2. TypeOK /\ Entries /\ Buffer /\ Behind /\ NothingStaleIsRead /\ ret = "ok" /\ Walking
    BY <1>1 DEF WInv, Behind, Walking
  <1>3. /\ new \subseteq DOMAIN map /\ \A k \in DOMAIN map : Bucket[k] = bucket => k \in new
    BY DEF InBucket
  <1>4. n \in Nat /\ s \in [1..n -> new] /\ \A k \in new : \E i \in 1..n : s[i] = k
    <2>1. IsFiniteSet(new)
      BY <1>2, <1>3, FS_Subset DEF Entries
    <2> HIDE DEF new
    <2>2. QED BY <2>1, SequenceOf
  <1> HIDE DEF new, n, s
  <1>5. count \in Nat /\ count <= BATCH /\ BATCH \in Nat /\ NrCpus \in Nat /\ bucket \in Nat /\ NBuckets \in Nat
    BY <1>2, Sizes DEF TypeOK
  <1>6. \A m \in 1..n : s[m] \in DOMAIN map /\ s[m] \in Keys /\ map[s[m]] \in [CPUs -> 0..MaxSlot]
    BY <1>2, <1>3, <1>4 DEF TypeOK
  <1>7. keys' \in [1..BATCH -> Keys \cup {NoKey}]
    BY <1>1, <1>2, <1>6 DEF TypeOK
  <1>8. values' \in [1..BATCH * NrCpus -> 0..MaxSlot]
    <2>1. ASSUME NEW j \in 1..BATCH * NrCpus
          PROVE  ((j - 1) % NrCpus) + 1 \in CPUs
      <3>1. j - 1 \in Nat /\ NrCpus \in Nat \ {0}
        BY Sizes
      <3>2. QED BY <3>1 DEF CPUs
    <2>2. \A j \in 1..BATCH * NrCpus : values[j] \in 0..MaxSlot
      BY <1>2 DEF TypeOK
    <2>3. ASSUME NEW j \in 1..BATCH * NrCpus
          PROVE  values'[j] \in 0..MaxSlot
      <3>1. CASE (j - 1) \div NrCpus - count + 1 \in 1..n
        BY <1>1, <1>6, <2>1, <3>1
      <3>2. CASE (j - 1) \div NrCpus - count + 1 \notin 1..n
        BY <1>1, <2>2, <3>2
      <3>3. QED BY <3>1, <3>2
    <2>4. values' = [j \in 1..BATCH * NrCpus |-> values'[j]]
      BY <1>1
    <2>5. QED BY <2>3, <2>4
  <1>9. TypeOK'
    <2>1. count' \in 0..BATCH /\ bucket' \in 1..NBuckets + 1
      BY <1>1, <1>4, <1>5, <1>2 DEF TypeOK
    <2>2. QED BY <1>1, <1>2, <1>7, <1>8, <2>1 DEF TypeOK
  <1>10. Entries'
    BY <1>1, <1>2, EntriesStay
  <1>11. \A i \in 1..BATCH : Slots(i) = SumFunctionOnSet(values, Row(i))
    <2>1. DOMAIN values = 1..BATCH * NrCpus
      BY <1>2 DEF TypeOK
    <2>2. QED BY <2>1 DEF Slots, Row
  <1>12. \A i \in 1..BATCH : Slots(i)' = SumFunctionOnSet(values', Row(i))
    <2>1. DOMAIN values' = 1..BATCH * NrCpus
      BY <1>1
    <2>2. QED BY <2>1 DEF Slots, Row
  <1>13. ASSUME NEW i \in 1..count
         PROVE  i \in 1..BATCH /\ keys'[i] = keys[i] /\ Slots(i)' = Slots(i)
    <2>1. i \in 1..BATCH /\ i \in Int /\ ~(i - count \in 1..n)
      BY <1>4, <1>5
    <2>2. ASSUME NEW c \in CPUs
          PROVE  values'[(i - 1) * NrCpus + c] = values[(i - 1) * NrCpus + c]
      <3> DEFINE j == (i - 1) * NrCpus + c
      <3>1. j \in 1..BATCH * NrCpus /\ (j - 1) \div NrCpus = i - 1
        BY <2>1, Strides
      <3> HIDE DEF j
      <3>2. (j - 1) \div NrCpus - count + 1 = i - count
        BY <1>5, <2>1, <3>1
      <3>3. values'[j] = values[j]
        BY <1>1, <2>1, <3>1, <3>2
      <3>4. QED BY <3>3 DEF j
    <2>3. values \in [1..BATCH * NrCpus -> 0..MaxSlot]
      BY <1>2 DEF TypeOK
    <2>4. SumFunctionOnSet(values', Row(i)) = SumFunctionOnSet(values, Row(i))
      BY <1>8, <2>1, <2>2, <2>3, RowStays
    <2>5. QED BY <1>1, <1>11, <1>12, <2>1, <2>4
  <1>14. ASSUME NEW i \in 1..BATCH, NEW m \in 1..n, i = count + m
         PROVE  keys'[i] = s[m] /\ Slots(i)' = SumFunction(map[s[m]])
    <2>1. i - count = m /\ i \in Int
      BY <1>4, <1>5, <1>14
    <2>2. ASSUME NEW c \in CPUs
          PROVE  values'[(i - 1) * NrCpus + c] = map[s[m]][c]
      <3> DEFINE j == (i - 1) * NrCpus + c
      <3>1. j \in 1..BATCH * NrCpus /\ (j - 1) \div NrCpus = i - 1 /\ ((j - 1) % NrCpus) + 1 = c
        BY Strides
      <3> HIDE DEF j
      <3>2. (j - 1) \div NrCpus - count + 1 = m
        BY <1>5, <2>1, <3>1
      <3>3. values'[j] = map[s[m]][c]
        BY <1>1, <3>1, <3>2
      <3>4. QED BY <3>3 DEF j
    <2>3. SumFunctionOnSet(values', Row(i)) = SumFunction(map[s[m]])
      BY <1>6, <1>8, <2>2, RowSum
    <2>4. QED BY <1>1, <1>12, <2>1, <2>3
  <1>15. /\ \A i \in 1..count' : i \in 1..BATCH /\ (i \in 1..count \/ \E m \in 1..n : i = count + m)
         /\ \A m \in 1..n : count + m \in 1..count' /\ count + m \in 1..BATCH
    <2>1. ASSUME NEW i \in 1..count', i > count
          PROVE  \E m \in 1..n : i = count + m
      <3>1. i - count \in 1..n /\ i = count + (i - count)
        BY <1>1, <1>4, <1>5, <2>1
      <3>2. QED BY <3>1
    <2>2. \A i \in 1..count' : i \in 1..BATCH /\ (i > count \/ i \in 1..count)
      BY <1>1, <1>4, <1>5
    <2>3. ASSUME NEW m \in 1..n
          PROVE  count + m \in 1..count' /\ count + m \in 1..BATCH
      BY <1>1, <1>4, <1>5
    <2>4. QED BY <2>1, <2>2, <2>3
  <1>16. Buffer'
    <2> SUFFICES ASSUME NEW i \in 1..count' PROVE keys'[i] \in Keys /\ Right(keys[i], Slots(i))'
      BY DEF Buffer
    <2>1. CASE i \in 1..count
      <3>1. keys[i] \in Keys /\ Right(keys[i], Slots(i))
        BY <1>1, <1>2, <2>1 DEF Buffer
      <3>2. QED BY <1>1, <1>13, <2>1, <3>1 DEF Right
    <2>2. ASSUME NEW m \in 1..n, i = count + m
          PROVE  keys'[i] \in Keys /\ Right(keys[i], Slots(i))'
      <3>1. Right(s[m], SumFunction(map[s[m]]))
        BY <1>2, <1>6 DEF Entries
      <3>2. keys'[i] = s[m] /\ Slots(i)' = SumFunction(map[s[m]])
        BY <1>14, <1>15, <2>2
      <3>3. QED BY <1>1, <1>6, <3>1, <3>2 DEF Right
    <2>3. QED BY <1>15, <2>1, <2>2
  <1>17. ASSUME NEW k \in DOMAIN low, Bucket[k] < bucket + 1
         PROVE  (IsRead(k) \/ IsCopied(k))'
    <2>1. Bucket[k] \in Nat /\ k \in DOMAIN map
      BY <1>2, <1>5, BucketAssumption DEF TypeOK
    <2>2. CASE Bucket[k] < bucket
      <3>1. CASE IsRead(k)
        BY <1>1, <3>1 DEF IsRead
      <3>2. CASE IsCopied(k)
        <4>1. PICK i \in 1..count : keys[i] = k
          BY <3>2 DEF IsCopied
        <4>2. i \in 1..count' /\ keys'[i] = k
          BY <1>1, <1>4, <1>5, <1>13, <4>1
        <4>3. QED BY <4>2 DEF IsCopied
      <3>3. QED BY <1>1, <1>2, <2>2, <3>1, <3>2 DEF Behind
    <2>3. CASE Bucket[k] = bucket
      <3>1. PICK m \in 1..n : s[m] = k
        BY <1>3, <1>4, <2>1, <2>3
      <3>2. count + m \in 1..count' /\ keys'[count + m] = k
        BY <1>14, <1>15, <3>1
      <3>3. QED BY <3>2 DEF IsCopied
    <2>4. QED BY <1>5, <1>17, <2>1, <2>2, <2>3
  <1>18. Behind'
    BY <1>1, <1>2, <1>17 DEF Behind
  <1>19. QED
    BY <1>1, <1>2, <1>9, <1>10, <1>16, <1>18 DEF WInv, NothingStaleIsRead

-----------------------------------------------------------------------------
(* Every action of the hooks, the call and the reader keeps the invariant. *)
LEMMA WalkInvariant == Spec => []WInv
  <1>1. WInv /\ [Next]_vars => WInv'
    <2> SUFFICES ASSUME WInv, [Next]_vars PROVE WInv'
      OBVIOUS
    <2>1. CASE Hook
      BY <2>1, AddStep, EvictStep DEF Hook
    <2>2. CASE Walk
      BY <2>2, BeginStep, LookupBatchStep, CopyBucketStep, StopStep, FailStep, FoldStep, ReturnStep DEF Walk
    <2>3. CASE UNCHANGED vars
      <3>1. \A k \in DOMAIN low : IsRead(k)' = IsRead(k) /\ IsCopied(k)' = IsCopied(k)
        BY <2>3 DEF vars, kernel, reader, history, IsRead, IsCopied
      <3>2. \A i : Slots(i)' = Slots(i)
        BY <2>3 DEF vars, kernel, reader, history, Slots
      <3>3. TypeOK' /\ Entries'
        BY <2>3 DEF vars, kernel, reader, history, WInv, TypeOK, Entries, Walking, Right
      <3>4. \A k \in Keys : peak[k] <= peak'[k]
        BY <2>3 DEF vars, history, WInv, TypeOK
      <3>5. QED
        BY <2>3, <3>3, <3>4, RightStays DEF vars, kernel, history
    <2>4. QED BY <2>1, <2>2, <2>3 DEF Next
  <1>2. QED
    BY InitWInv, <1>1, PTL DEF Spec

(* Every state of a walk is well-formed: the call stays within the batch   *)
(* and the scratch buffers, and the totals and the marks are numbers of    *)
(* keys that exist (batch.rs:96-150).                                      *)
THEOREM TypeCorrect == Spec => []TypeOK
  <1>1. WInv => TypeOK
    BY DEF WInv
  <1>2. QED BY WalkInvariant, <1>1, PTL

(* However many keys, buckets, CPUs and entries a call there are, and      *)
(* whatever the hooks do meanwhile, a walk no call of which failed has     *)
(* read every key that was in the map all along, with at least what it had *)
(* when the walk began (batch.rs:103-108).                                 *)
THEOREM StableKeysRead == Spec => []StableKeysAreRead
  <1>1. WInv => StableKeysAreRead
    <2> SUFFICES ASSUME WInv, pc = "done", ret # "error", NEW k \in DOMAIN low
                 PROVE  k \in DOMAIN totals /\ totals[k] >= low[k]
      BY DEF StableKeysAreRead
    <2>1. IsRead(k)
      BY DEF WInv, Behind
    <2>2. low[k] \in Nat /\ k \in DOMAIN totals /\ totals[k] \in Nat
      BY <2>1 DEF WInv, TypeOK, IsRead
    <2>3. QED BY <2>1, <2>2 DEF IsRead
  <1>2. QED BY WalkInvariant, <1>1, PTL

(* Nothing an earlier batch, an earlier walk or a failed call left in the  *)
(* scratch buffers is ever summed: a key is reported with a sum it can     *)
(* have had during this walk (batch.rs:126-150).                           *)
THEOREM NothingStaleRead == Spec => []NothingStaleIsRead
  <1>1. WInv => NothingStaleIsRead
    BY DEF WInv
  <1>2. QED BY WalkInvariant, <1>1, PTL
=============================================================================
