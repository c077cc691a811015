---------------------------- MODULE MetricsProofs ----------------------------
(***************************************************************************)
(* Lemmas about the functions of Metrics, for every set of names and every *)
(* integer width.  Facts about the loops of the code (recursive functions  *)
(* here) are proved by taking the first index at which they fail.          *)
(***************************************************************************)
EXTENDS Metrics, FiniteSetTheorems, WellFoundedInduction, TLAPS

(* A non-empty set of naturals has a least element.                        *)
LEMMA LeastNatural ==
    ASSUME NEW S \in SUBSET Nat, S # {}
    PROVE  \E m \in S : \A k \in S : m <= k
<1>1. PICK m \in S : \A k \in S : ~(<<k, m>> \in OpToRel(<, Nat))
  BY WFMin, NatLessThanWellFounded
<1>2. \A k \in S : ~(k < m)
  BY <1>1 DEF OpToRel
<1> QED BY <1>2

(* int64 addition stays in int64.                                          *)
LEMMA WrapType == ASSUME NEW x \in Int PROVE Wrap(x) \in Int64
<1>1. HalfRange \in Nat /\ HalfRange > 0
  BY ValuesAssumption
<1> DEFINE n == 2 * HalfRange
           y == x + HalfRange
<1>2. n \in Nat /\ n > 0 /\ y \in Int
  BY <1>1
<1> HIDE DEF n, y
<1>3. y % n \in 0 .. n - 1
  BY <1>2
<1>4. (y % n) - HalfRange \in -HalfRange .. HalfRange - 1
  BY <1>1, <1>2, <1>3 DEF n
<1> QED BY <1>4 DEF Wrap, Int64, n, y

(* Names are identifiers, and none is blank.                               *)
LEMMA NamesAreIds == Names \subseteq RawIds /\ Blank \notin Names
BY TrimAssumption DEF Names

(* New returns a store.                                                    *)
LEMMA EmptyStoreType == EmptyStore \in Stores
BY DEF EmptyStore, Stores

(* Storing a usable metric leaves a store.                                 *)
LEMMA ApplyItemType ==
    ASSUME NEW s \in Stores, NEW m \in UsableMetric
    PROVE  ApplyItem(s, m) \in Stores
<1>1. m \in Metric /\ m.id \in Names /\ Usable(m)
  BY DEF UsableMetric
<1>2. CASE m.mtype = "gauge" /\ m.value # Nil
  <2>1. m.value \in Values BY <1>1, <1>2 DEF Metric
  <2>2. SetGauge(s, m.id, m.value) \in Stores
    BY <1>1, <2>1 DEF SetGauge, Stores
  <2> QED BY <1>2, <2>2 DEF ApplyItem
<1>3. CASE m.mtype = "counter" /\ m.delta # Nil
  <2>1. m.delta \in Int64 BY <1>1, <1>3 DEF Metric
  <2> DEFINE old == IF s.counters[m.id] = Nil THEN 0 ELSE s.counters[m.id]
  <2>2. old \in Int
    BY <1>1, ValuesAssumption DEF Stores, Int64
  <2>3. m.delta \in Int
    BY <2>1, ValuesAssumption DEF Int64
  <2>4. old + m.delta \in Int
    BY <2>2, <2>3
  <2>5. Wrap(old + m.delta) \in Int64
    BY <2>4, WrapType
  <2>6. AddCounter(s, m.id, m.delta) \in Stores
    BY <1>1, <2>5 DEF AddCounter, Stores
  <2> QED BY <1>3, <2>6 DEF ApplyItem
<1> QED BY <1>1, <1>2, <1>3 DEF Usable

-----------------------------------------------------------------------------
(* The loop of UpdateMany as a function of the iterations done.            *)
IsUpdateLoop(f, s, items, n) ==
    f = [i \in 0 .. n |-> IF i = 0 THEN s ELSE ApplyItem(f[i-1], items[i])]

(* The function AfterItems defines by recursion exists.                    *)
LEMMA UpdateLoopExists ==
    ASSUME NEW s, NEW items, NEW n \in Nat
    PROVE  \E f : IsUpdateLoop(f, s, items, n)
<1> DEFINE Bad == {k \in Nat : ~\E f : IsUpdateLoop(f, s, items, k)}
<1>1. SUFFICES ASSUME Bad # {} PROVE FALSE
  OBVIOUS
<1>2. PICK m \in Bad : \A k \in Bad : m <= k
  BY <1>1, LeastNatural
<1>3. CASE m = 0
  <2> DEFINE f == [i \in 0 .. 0 |-> s]
  <2>1. IsUpdateLoop(f, s, items, 0)
    BY DEF IsUpdateLoop
  <2> QED BY <1>2, <1>3, <2>1
<1>4. CASE m # 0
  <2>1. m - 1 \in Nat /\ m - 1 \notin Bad
    BY <1>2, <1>4
  <2>2. PICK g : IsUpdateLoop(g, s, items, m - 1)
    BY <2>1
  <2> DEFINE f == [i \in 0 .. m |-> IF i = m THEN ApplyItem(g[m-1], items[m]) ELSE g[i]]
  <2>3. \A i \in 0 .. m - 1 : g[i] = IF i = 0 THEN s ELSE ApplyItem(g[i-1], items[i])
    BY <2>2 DEF IsUpdateLoop
  <2>4. ASSUME NEW i \in 0 .. m
        PROVE  f[i] = IF i = 0 THEN s ELSE ApplyItem(f[i-1], items[i])
    <3>1. CASE i = m
      BY <1>4, <2>1, <3>1
    <3>2. CASE i # m
      <4>1. i \in 0 .. m - 1 /\ f[i] = g[i]
        BY <2>1, <3>2
      <4>2. i # 0 => i - 1 \in 0 .. m /\ i - 1 # m /\ f[i-1] = g[i-1]
        BY <2>1, <3>2
      <4> QED BY <2>3, <4>1, <4>2
    <3> QED BY <3>1, <3>2
  <2>5. IsUpdateLoop(f, s, items, m)
    BY <2>4 DEF IsUpdateLoop
  <2> QED BY <1>2, <2>5
<1> QED BY <1>3, <1>4

(* AfterItems unfolds like the loop it stands for.                         *)
LEMMA AfterItemsUnfold ==
    ASSUME NEW s, NEW items \in Seq(UsableMetric)
    PROVE  /\ AfterItems(s, items, 0) = s
           /\ \A k \in 1 .. Len(items) :
                 AfterItems(s, items, k) = ApplyItem(AfterItems(s, items, k - 1), items[k])
<1> DEFINE f == CHOOSE f : IsUpdateLoop(f, s, items, Len(items))
<1>1. Len(items) \in Nat
  OBVIOUS
<1>2. IsUpdateLoop(f, s, items, Len(items))
  BY <1>1, UpdateLoopExists
<1>3. \A k : AfterItems(s, items, k) = f[k]
  BY DEF AfterItems, IsUpdateLoop
<1>4. \A k \in 0 .. Len(items) :
         f[k] = IF k = 0 THEN s ELSE ApplyItem(f[k-1], items[k])
  BY <1>2 DEF IsUpdateLoop
<1> HIDE DEF f
<1> QED BY <1>1, <1>3, <1>4

(* Every iteration of UpdateMany leaves a store.                           *)
LEMMA AfterItemsType ==
    ASSUME NEW s \in Stores, NEW items \in Seq(UsableMetric), NEW n \in 0 .. Len(items)
    PROVE  AfterItems(s, items, n) \in Stores
<1> DEFINE Bad == {k \in 0 .. Len(items) : AfterItems(s, items, k) \notin Stores}
<1>1. SUFFICES ASSUME Bad # {} PROVE FALSE
  OBVIOUS
<1>2. PICK m \in Bad : \A k \in Bad : m <= k
  BY <1>1, LeastNatural, Bad \in SUBSET Nat
<1>3. m # 0
  BY <1>2, AfterItemsUnfold
<1>4. m - 1 \in 0 .. Len(items) /\ m - 1 \notin Bad /\ m \in 1 .. Len(items)
  BY <1>2, <1>3
<1>5. AfterItems(s, items, m - 1) \in Stores /\ items[m] \in UsableMetric
  BY <1>4
<1>6. AfterItems(s, items, m) = ApplyItem(AfterItems(s, items, m - 1), items[m])
  <2>1. \A k \in 1 .. Len(items) :
          AfterItems(s, items, k) = ApplyItem(AfterItems(s, items, k - 1), items[k])
    BY AfterItemsUnfold
  <2> QED BY <1>4, <2>1
<1>7. AfterItems(s, items, m) \in Stores
  BY <1>5, <1>6, ApplyItemType
<1> QED BY <1>2, <1>7

(* UpdateMany leaves a store.                                              *)
LEMMA UpdateManyType ==
    ASSUME NEW s \in Stores, NEW items \in Seq(UsableMetric)
    PROVE  UpdateMany(s, items) \in Stores
BY AfterItemsType, Len(items) \in 0 .. Len(items) DEF UpdateMany

-----------------------------------------------------------------------------
(* The loop of UpsertBatch as a function of the items looked at.           *)
IsValidLoop(f, items, n) ==
    f = [i \in 0 .. n |->
           IF i = 0 THEN << >>
           ELSE IF Trim[items[i].id] # Blank /\ Usable(items[i])
                THEN Append(f[i-1], Trimmed(items[i]))
                ELSE f[i-1]]

(* The function ValidItems defines by recursion exists.                    *)
LEMMA ValidLoopExists ==
    ASSUME NEW items, NEW n \in Nat
    PROVE  \E f : IsValidLoop(f, items, n)
<1> DEFINE Step(r, i) == IF Trim[items[i].id] # Blank /\ Usable(items[i])
                         THEN Append(r, Trimmed(items[i])) ELSE r
           Bad == {k \in Nat : ~\E f : IsValidLoop(f, items, k)}
<1>1. SUFFICES ASSUME Bad # {} PROVE FALSE
  OBVIOUS
<1>2. PICK m \in Bad : \A k \in Bad : m <= k
  BY <1>1, LeastNatural
<1>3. CASE m = 0
  <2> DEFINE f == [i \in 0 .. 0 |-> << >>]
  <2>1. IsValidLoop(f, items, 0)
    BY DEF IsValidLoop
  <2> QED BY <1>2, <1>3, <2>1
<1>4. CASE m # 0
  <2>1. m - 1 \in Nat /\ m - 1 \notin Bad
    BY <1>2, <1>4
  <2>2. PICK g : IsValidLoop(g, items, m - 1)
    BY <2>1
  <2> DEFINE f == [i \in 0 .. m |-> IF i = m THEN Step(g[m-1], m) ELSE g[i]]
  <2>3. \A i \in 0 .. m - 1 : g[i] = IF i = 0 THEN << >> ELSE Step(g[i-1], i)
    BY <2>2 DEF IsValidLoop
  <2> HIDE DEF Step
  <2>4. ASSUME NEW i \in 0 .. m
        PROVE  f[i] = IF i = 0 THEN << >> ELSE Step(f[i-1], i)
    <3>1. CASE i = m
      BY <1>4, <2>1, <3>1
    <3>2. CASE i # m
      <4>1. i \in 0 .. m - 1 /\ f[i] = g[i]
        BY <2>1, <3>2
      <4>2. i # 0 => i - 1 \in 0 .. m /\ i - 1 # m /\ f[i-1] = g[i-1]
        BY <2>1, <3>2
      <4> QED BY <2>3, <4>1, <4>2
    <3> QED BY <3>1, <3>2
  <2>5. f = [i \in 0 .. m |-> IF i = 0 THEN << >> ELSE Step(f[i-1], i)]
    BY <2>4
  <2>6. IsValidLoop(f, items, m)
    BY <2>5 DEF IsValidLoop, Step
  <2> QED BY <1>2, <2>6
<1> QED BY <1>3, <1>4

(* What UpsertBatch passes on is usable, with a trimmed, non-blank name.   *)
LEMMA TrimmedType ==
    ASSUME NEW m \in Metric, Trim[m.id] # Blank, Usable(m)
    PROVE  Trimmed(m) \in UsableMetric
<1>1. Trim[m.id] \in Names /\ Trim[m.id] \in RawIds
  BY TrimAssumption DEF Metric, Names
<1>2. Trimmed(m) \in Metric /\ Trimmed(m).id \in Names
  BY <1>1 DEF Trimmed, Metric
<1>3. Usable(Trimmed(m))
  BY DEF Trimmed, Usable, Metric
<1> QED BY <1>2, <1>3 DEF UsableMetric

(* What the loop of UpsertBatch keeps can be stored.                       *)
LEMMA ValidItemsType ==
    ASSUME NEW items \in Seq(Metric)
    PROVE  ValidItems(items) \in Seq(UsableMetric)
<1> DEFINE f == CHOOSE f : IsValidLoop(f, items, Len(items))
           Bad == {k \in 0 .. Len(items) : f[k] \notin Seq(UsableMetric)}
<1>1. IsValidLoop(f, items, Len(items))
  BY ValidLoopExists, Len(items) \in Nat
<1>2. ValidItems(items) = f[Len(items)]
  BY DEF ValidItems, IsValidLoop
<1>3. \A i \in 0 .. Len(items) :
        f[i] = IF i = 0 THEN << >>
               ELSE IF Trim[items[i].id] # Blank /\ Usable(items[i])
                    THEN Append(f[i-1], Trimmed(items[i]))
                    ELSE f[i-1]
  BY <1>1 DEF IsValidLoop
<1> HIDE DEF f
<1>4. SUFFICES ASSUME Bad # {} PROVE FALSE
  BY <1>2
<1>5. PICK m \in Bad : \A k \in Bad : m <= k
  BY <1>4, LeastNatural, Bad \in SUBSET Nat
<1>6. m # 0
  <2>1. f[0] = << >>
    BY <1>3, 0 \in 0 .. Len(items)
  <2>2. << >> \in Seq(UsableMetric)
    OBVIOUS
  <2> QED BY <1>5, <2>1, <2>2
<1>7. m - 1 \in 0 .. Len(items) /\ m - 1 \notin Bad /\ m \in 1 .. Len(items)
  BY <1>5, <1>6
<1>8. f[m-1] \in Seq(UsableMetric) /\ items[m] \in Metric
  BY <1>7
<1>9. f[m] \in Seq(UsableMetric)
  <2>1. CASE Trim[items[m].id] # Blank /\ Usable(items[m])
    <3>1. f[m] = Append(f[m-1], Trimmed(items[m]))
      BY <1>3, <1>6, <1>7, <2>1
    <3>2. Trimmed(items[m]) \in UsableMetric
      BY <1>8, <2>1, TrimmedType
    <3> QED BY <1>8, <3>1, <3>2
  <2>2. CASE ~(Trim[items[m].id] # Blank /\ Usable(items[m]))
    <3>1. f[m] = f[m-1]
      BY <1>3, <1>6, <1>7, <2>2
    <3> QED BY <1>8, <3>1
  <2> QED BY <2>1, <2>2
<1> QED BY <1>5, <1>9

-----------------------------------------------------------------------------
(* A value that is in range is not changed by wrapping.                    *)
LEMMA WrapIdentity == ASSUME NEW x \in Int64 PROVE Wrap(x) = x
<1>1. HalfRange \in Nat /\ HalfRange > 0 /\ x \in Int
  BY ValuesAssumption DEF Int64
<1> DEFINE n == 2 * HalfRange
           y == x + HalfRange
<1>2. n \in Nat /\ n > 0 /\ y \in Int /\ 0 <= y /\ y < n
  BY <1>1 DEF Int64
<1>3. \A a, b \in Int : 0 <= a /\ a < b => a % b = a
  OBVIOUS
<1>4. y % n = y
  <2> HIDE DEF n, y
  <2> QED BY <1>2, <1>3
<1> QED BY <1>1, <1>4 DEF Wrap

(* Flattening a store yields usable metrics, finitely many.                *)
LEMMA FlattenType ==
    ASSUME NEW s \in Stores
    PROVE  Flatten(s) \subseteq UsableMetric
<1>1. ASSUME NEW n \in Names, s.gauges[n] # Nil
      PROVE  Gauge(n, s.gauges[n]) \in UsableMetric
  <2>1. s.gauges[n] \in Values
    BY <1>1 DEF Stores
  <2>2. n \in RawIds
    BY NamesAreIds
  <2> QED BY <1>1, <2>1, <2>2 DEF Gauge, UsableMetric, Metric, MTypes, Usable
<1>2. ASSUME NEW n \in Names, s.counters[n] # Nil
      PROVE  Counter(n, s.counters[n]) \in UsableMetric
  <2>1. s.counters[n] \in Int64
    BY <1>2 DEF Stores
  <2>2. n \in RawIds
    BY NamesAreIds
  <2> QED BY <1>2, <2>1, <2>2 DEF Counter, UsableMetric, Metric, MTypes, Usable
<1> QED BY <1>1, <1>2 DEF Flatten

(* A store has finitely many entries.                                      *)
LEMMA FlattenFinite ==
    ASSUME NEW s
    PROVE  IsFiniteSet(Flatten(s))
<1> DEFINE Dg == {x \in Names : s.gauges[x] # Nil}
           Dc == {x \in Names : s.counters[x] # Nil}
           Tg == {Gauge(n, s.gauges[n]) : n \in Dg}
           Tc == {Counter(n, s.counters[n]) : n \in Dc}
<1>1. IsFiniteSet(Dg) /\ IsFiniteSet(Dc)
  <2>1. IsFiniteSet(RawIds)
    BY TrimAssumption
  <2>2. Dg \in SUBSET RawIds /\ Dc \in SUBSET RawIds
    BY NamesAreIds
  <2> QED BY <2>1, <2>2, FS_Subset
<1>2. IsFiniteSet(Tg)
  <2> DEFINE f == [n \in Dg |-> Gauge(n, s.gauges[n])]
  <2>1. f \in Surjection(Dg, Tg)
    BY DEF Surjection
  <2> QED BY <1>1, <2>1, FS_Surjection
<1>3. IsFiniteSet(Tc)
  <2> DEFINE f == [n \in Dc |-> Counter(n, s.counters[n])]
  <2>1. f \in Surjection(Dc, Tc)
    BY DEF Surjection
  <2> QED BY <1>1, <2>1, FS_Surjection
<1>4. IsFiniteSet(Tg \cup Tc)
  BY <1>2, <1>3, FS_Union
<1> QED BY <1>4 DEF Flatten

(* An order of a finite set lists each of its elements exactly once.       *)
LEMMA OrdersAreSequences ==
    ASSUME NEW S, IsFiniteSet(S), NEW o \in Orders(S)
    PROVE  /\ o \in Seq(S)
           /\ \A x \in S : \E i \in 1 .. Len(o) : o[i] = x
           /\ \A i, j \in 1 .. Len(o) : o[i] = o[j] => i = j
<1> DEFINE n == Cardinality(S)
<1>1. n \in Nat
  BY FS_CardinalityType
<1> HIDE DEF n
<1>2. o \in [1 .. n -> S] /\ \A i, j \in 1 .. n : i # j => o[i] # o[j]
  BY DEF Orders, SetToSeqs, n
<1>3. o \in Seq(S) /\ Len(o) = n
  BY <1>1, <1>2
<1>4. o \in Injection(1 .. n, S)
  BY <1>2 DEF Injection, IsInjective
<1>5. IsFiniteSet(1 .. n) /\ Cardinality(1 .. n) = n
  BY <1>1, FS_Interval
<1>6. o \in Surjection(1 .. n, S)
  BY <1>4, <1>5, FS_Injection DEF n
<1> QED BY <1>2, <1>3, <1>6 DEF Surjection

-----------------------------------------------------------------------------
(* Replaying the first k items of an order of Flatten(s) restores exactly  *)
(* the entries of s that these items name.                                 *)
Replayed(s, o, k) ==
    \A n \in Names :
        /\ AfterItems(EmptyStore, o, k).gauges[n] =
             IF s.gauges[n] # Nil /\ \E i \in 1 .. k : o[i] = Gauge(n, s.gauges[n])
             THEN s.gauges[n] ELSE Nil
        /\ AfterItems(EmptyStore, o, k).counters[n] =
             IF s.counters[n] # Nil /\ \E i \in 1 .. k : o[i] = Counter(n, s.counters[n])
             THEN s.counters[n] ELSE Nil

(* One more item replayed: exactly the entries listed so far are restored. *)
LEMMA ReplayStep ==
    ASSUME NEW s \in Stores, NEW o \in Seq(UsableMetric),
           \A i \in 1 .. Len(o) : o[i] \in Flatten(s),
           \A i, j \in 1 .. Len(o) : o[i] = o[j] => i = j,
           NEW k \in 1 .. Len(o), Replayed(s, o, k - 1)
    PROVE  Replayed(s, o, k)
<1> DEFINE a == AfterItems(EmptyStore, o, k - 1)
           b == AfterItems(EmptyStore, o, k)
<1>1. b = ApplyItem(a, o[k])
  <2>1. \A i \in 1 .. Len(o) :
          AfterItems(EmptyStore, o, i) = ApplyItem(AfterItems(EmptyStore, o, i - 1), o[i])
    BY AfterItemsUnfold
  <2> QED BY <2>1
<1>2. a \in Stores
  BY AfterItemsType, EmptyStoreType, k - 1 \in 0 .. Len(o)
<1>3. /\ \A n \in Names : a.gauges[n] =
              IF s.gauges[n] # Nil /\ \E i \in 1 .. k - 1 : o[i] = Gauge(n, s.gauges[n])
              THEN s.gauges[n] ELSE Nil
      /\ \A n \in Names : a.counters[n] =
              IF s.counters[n] # Nil /\ \E i \in 1 .. k - 1 : o[i] = Counter(n, s.counters[n])
              THEN s.counters[n] ELSE Nil
  BY DEF Replayed
<1>4. \A x : (\E i \in 1 .. k : o[i] = x) <=> (\E i \in 1 .. k - 1 : o[i] = x) \/ o[k] = x
  <2>1. 1 .. k = (1 .. k - 1) \cup {k}
    OBVIOUS
  <2> QED BY <2>1
<1> SUFFICES
      /\ \A n \in Names : b.gauges[n] =
              IF s.gauges[n] # Nil /\ \E i \in 1 .. k : o[i] = Gauge(n, s.gauges[n])
              THEN s.gauges[n] ELSE Nil
      /\ \A n \in Names : b.counters[n] =
              IF s.counters[n] # Nil /\ \E i \in 1 .. k : o[i] = Counter(n, s.counters[n])
              THEN s.counters[n] ELSE Nil
  BY DEF Replayed
<1> HIDE DEF a, b
<1>5. ASSUME NEW g \in Names, s.gauges[g] # Nil, o[k] = Gauge(g, s.gauges[g])
      PROVE  /\ \A n \in Names : b.gauges[n] =
                    IF s.gauges[n] # Nil /\ \E i \in 1 .. k : o[i] = Gauge(n, s.gauges[n])
                    THEN s.gauges[n] ELSE Nil
             /\ \A n \in Names : b.counters[n] =
                    IF s.counters[n] # Nil /\ \E i \in 1 .. k : o[i] = Counter(n, s.counters[n])
                    THEN s.counters[n] ELSE Nil
  <2>1. b = SetGauge(a, g, s.gauges[g])
    BY <1>1, <1>5 DEF ApplyItem, Gauge
  <2>2. /\ b.counters = a.counters
        /\ \A n \in Names : b.gauges[n] = IF n = g THEN s.gauges[g] ELSE a.gauges[n]
    BY <1>2, <2>1 DEF SetGauge, Stores
  <2>3. \A n \in Names : o[k] = Gauge(n, s.gauges[n]) <=> n = g
    BY <1>5 DEF Gauge
  <2>4. \A n \in Names : o[k] # Counter(n, s.counters[n])
    BY <1>5 DEF Gauge, Counter
  <2>5. \A n \in Names : b.counters[n] =
           IF s.counters[n] # Nil /\ \E i \in 1 .. k : o[i] = Counter(n, s.counters[n])
           THEN s.counters[n] ELSE Nil
    BY <1>3, <1>4, <2>2, <2>4
  <2>6. \A n \in Names : b.gauges[n] =
           IF s.gauges[n] # Nil /\ \E i \in 1 .. k : o[i] = Gauge(n, s.gauges[n])
           THEN s.gauges[n] ELSE Nil
    BY <1>3, <1>4, <1>5, <2>2, <2>3
  <2> QED BY <2>5, <2>6
<1>6. ASSUME NEW c \in Names, s.counters[c] # Nil, o[k] = Counter(c, s.counters[c])
      PROVE  /\ \A n \in Names : b.gauges[n] =
                    IF s.gauges[n] # Nil /\ \E i \in 1 .. k : o[i] = Gauge(n, s.gauges[n])
                    THEN s.gauges[n] ELSE Nil
             /\ \A n \in Names : b.counters[n] =
                    IF s.counters[n] # Nil /\ \E i \in 1 .. k : o[i] = Counter(n, s.counters[n])
                    THEN s.counters[n] ELSE Nil
  <2>1. b = AddCounter(a, c, s.counters[c])
    BY <1>1, <1>6 DEF ApplyItem, Counter
  <2>2. ~\E i \in 1 .. k - 1 : o[i] = Counter(c, s.counters[c])
    BY <1>6
  <2>3. a.counters[c] = Nil
    BY <1>3, <2>2
  <2>4. Wrap(0 + s.counters[c]) = s.counters[c]
    <3>1. s.counters[c] \in Int64
      BY <1>6 DEF Stores
    <3>2. 0 + s.counters[c] = s.counters[c]
      BY <3>1, ValuesAssumption DEF Int64
    <3> QED BY <3>1, <3>2, WrapIdentity
  <2>5. /\ b.gauges = a.gauges
        /\ \A n \in Names : b.counters[n] = IF n = c THEN s.counters[c] ELSE a.counters[n]
    BY <1>2, <2>1, <2>3, <2>4 DEF AddCounter, Stores
  <2>6. \A n \in Names : o[k] = Counter(n, s.counters[n]) <=> n = c
    BY <1>6 DEF Counter
  <2>7. \A n \in Names : o[k] # Gauge(n, s.gauges[n])
    BY <1>6 DEF Gauge, Counter
  <2>8. \A n \in Names : b.gauges[n] =
           IF s.gauges[n] # Nil /\ \E i \in 1 .. k : o[i] = Gauge(n, s.gauges[n])
           THEN s.gauges[n] ELSE Nil
    BY <1>3, <1>4, <2>5, <2>7
  <2>9. \A n \in Names : b.counters[n] =
           IF s.counters[n] # Nil /\ \E i \in 1 .. k : o[i] = Counter(n, s.counters[n])
           THEN s.counters[n] ELSE Nil
    BY <1>3, <1>4, <1>6, <2>5, <2>6
  <2> QED BY <2>8, <2>9
<1> QED BY <1>5, <1>6 DEF Flatten

(* Restore after Save is the identity: replaying the items of a snapshot,  *)
(* in whichever order the file lists them, into an empty repository gives  *)
(* back the store the snapshot was taken from.                             *)
THEOREM RestoreRoundTrip ==
    ASSUME NEW s \in Stores, NEW o \in Orders(Flatten(s))
    PROVE  UpdateMany(EmptyStore, o) = s
<1>1. /\ o \in Seq(Flatten(s))
      /\ \A x \in Flatten(s) : \E i \in 1 .. Len(o) : o[i] = x
      /\ \A i, j \in 1 .. Len(o) : o[i] = o[j] => i = j
  BY FlattenFinite, OrdersAreSequences
<1>2. o \in Seq(UsableMetric) /\ \A i \in 1 .. Len(o) : o[i] \in Flatten(s)
  BY <1>1, FlattenType
<1> DEFINE Bad == {k \in 0 .. Len(o) : ~Replayed(s, o, k)}
<1>3. Replayed(s, o, Len(o))
  <2>1. SUFFICES ASSUME Bad # {} PROVE FALSE
    BY <1>2
  <2>2. PICK m \in Bad : \A k \in Bad : m <= k
    BY <2>1, LeastNatural, Bad \in SUBSET Nat
  <2>3. m # 0
    <3>1. AfterItems(EmptyStore, o, 0) = EmptyStore
      BY <1>2, AfterItemsUnfold
    <3>2. Replayed(s, o, 0)
      BY <3>1 DEF Replayed, EmptyStore
    <3> QED BY <2>2, <3>2
  <2>4. m - 1 \in 0 .. Len(o) /\ m - 1 \notin Bad /\ m \in 1 .. Len(o)
    BY <1>2, <2>2, <2>3
  <2>5. Replayed(s, o, m)
    BY <1>1, <1>2, <2>4, ReplayStep
  <2> QED BY <2>2, <2>5
<1> DEFINE r == UpdateMany(EmptyStore, o)
<1>4. r \in Stores
  BY <1>2, EmptyStoreType, UpdateManyType
<1>5. \A n \in Names : r.gauges[n] = s.gauges[n]
  <2>1. \A n \in Names : s.gauges[n] # Nil => Gauge(n, s.gauges[n]) \in Flatten(s)
    BY DEF Flatten
  <2> QED BY <1>1, <1>3, <2>1 DEF Replayed, UpdateMany
<1>6. \A n \in Names : r.counters[n] = s.counters[n]
  <2>1. \A n \in Names : s.counters[n] # Nil => Counter(n, s.counters[n]) \in Flatten(s)
    BY DEF Flatten
  <2> QED BY <1>1, <1>3, <2>1 DEF Replayed, UpdateMany
<1> HIDE DEF r
<1>7. r.gauges = s.gauges /\ r.counters = s.counters
  BY <1>4, <1>5, <1>6 DEF Stores
<1>8. r = s
  BY <1>4, <1>7 DEF Stores
<1> QED BY <1>8 DEF r

-----------------------------------------------------------------------------
(* The names a store has an entry for are never lost.                      *)
Keeps(s, t) ==
    \A n \in Names : /\ s.gauges[n] # Nil => t.gauges[n] # Nil
                     /\ s.counters[n] # Nil => t.counters[n] # Nil

(* Applying an item removes no metric and leaves its own in the store.     *)
LEMMA ApplyItemKeeps ==
    ASSUME NEW s \in Stores, NEW m \in UsableMetric
    PROVE  /\ Keeps(s, ApplyItem(s, m))
           /\ m.mtype = "gauge" => ApplyItem(s, m).gauges[m.id] # Nil
           /\ m.mtype = "counter" => ApplyItem(s, m).counters[m.id] # Nil
<1>1. /\ m.id \in Names /\ m.value \in Values \cup {Nil} /\ m.delta \in Int64 \cup {Nil}
      /\ s.gauges \in [Names -> Values \cup {Nil}] /\ s.counters \in [Names -> Int64 \cup {Nil}]
  BY DEF UsableMetric, Metric, Stores
<1>2. CASE m.mtype = "gauge" /\ m.value # Nil
  <2>1. ApplyItem(s, m) = [gauges |-> [s.gauges EXCEPT ![m.id] = m.value], counters |-> s.counters]
    BY <1>2 DEF ApplyItem, SetGauge
  <2> QED BY <1>1, <1>2, <2>1 DEF Keeps
<1>3. CASE m.mtype = "counter" /\ m.delta # Nil
  <2> DEFINE old == IF s.counters[m.id] = Nil THEN 0 ELSE s.counters[m.id]
             new == Wrap(old + m.delta)
  <2>1. ApplyItem(s, m) = [gauges |-> s.gauges, counters |-> [s.counters EXCEPT ![m.id] = new]]
    BY <1>3 DEF ApplyItem, AddCounter
  <2>2. HalfRange \in Nat
    BY ValuesAssumption
  <2>3. old + m.delta \in Int
    BY <1>1, <1>3, <2>2 DEF Int64
  <2>4. new \in Int64
    BY <2>3, WrapType
  <2>5. new # Nil
    BY <2>2, <2>4, NilAssumption DEF Int64
  <2> HIDE DEF new
  <2> QED BY <1>1, <1>3, <2>1, <2>5 DEF Keeps
<1> QED BY <1>2, <1>3 DEF UsableMetric, Usable

(* A batch removes no metric.                                              *)
LEMMA UpdateManyKeeps ==
    ASSUME NEW s \in Stores, NEW items \in Seq(UsableMetric)
    PROVE  Keeps(s, UpdateMany(s, items))
<1> DEFINE After(k) == AfterItems(s, items, k)
           Bad == {k \in 0 .. Len(items) : ~Keeps(s, After(k))}
<1>1. After(0) = s /\ \A k \in 1 .. Len(items) : After(k) = ApplyItem(After(k - 1), items[k])
  BY AfterItemsUnfold
<1>2. \A k \in 0 .. Len(items) : After(k) \in Stores
  BY AfterItemsType
<1> HIDE DEF After
<1>3. SUFFICES ASSUME Bad # {} PROVE FALSE
  BY Len(items) \in 0 .. Len(items) DEF UpdateMany, After
<1>4. PICK m \in Bad : \A k \in Bad : m <= k
  BY <1>3, LeastNatural, Bad \in SUBSET Nat
<1>5. m # 0
  BY <1>1, <1>4 DEF Keeps
<1>6. m - 1 \in 0 .. Len(items) /\ m - 1 \notin Bad /\ m \in 1 .. Len(items)
  BY <1>4, <1>5
<1>7. Keeps(s, After(m - 1)) /\ After(m - 1) \in Stores /\ items[m] \in UsableMetric
  BY <1>2, <1>6
<1>8. Keeps(After(m - 1), ApplyItem(After(m - 1), items[m]))
  BY <1>7, ApplyItemKeeps
<1>9. Keeps(s, After(m))
  BY <1>1, <1>6, <1>7, <1>8 DEF Keeps
<1> QED BY <1>4, <1>9

(* A batch of one is one iteration.                                        *)
LEMMA UpdateOne ==
    ASSUME NEW s, NEW m \in UsableMetric
    PROVE  UpdateMany(s, <<m>>) = ApplyItem(s, m)
<1>1. <<m>> \in Seq(UsableMetric) /\ Len(<<m>>) = 1 /\ <<m>>[1] = m
  OBVIOUS
<1>2. AfterItems(s, <<m>>, 0) = s
      /\ \A k \in 1 .. Len(<<m>>) :
            AfterItems(s, <<m>>, k) = ApplyItem(AfterItems(s, <<m>>, k - 1), <<m>>[k])
  BY <1>1, AfterItemsUnfold
<1>3. AfterItems(s, <<m>>, 1) = ApplyItem(AfterItems(s, <<m>>, 1 - 1), <<m>>[1])
  BY <1>1, <1>2
<1>4. AfterItems(s, <<m>>, 1) = ApplyItem(s, m)
  BY <1>1, <1>2, <1>3, 1 - 1 = 0
<1> QED BY <1>1, <1>4 DEF UpdateMany

(* What UpdateMany does depends on what each item does, and on nothing     *)
(* else of it.                                                             *)
LEMMA UpdateManySame ==
    ASSUME NEW s, NEW p \in Seq(UsableMetric), NEW q \in Seq(UsableMetric), Len(p) = Len(q),
           \A k \in 1 .. Len(p) : \A t : ApplyItem(t, p[k]) = ApplyItem(t, q[k])
    PROVE  UpdateMany(s, p) = UpdateMany(s, q)
<1> DEFINE P(k) == AfterItems(s, p, k)
           Q(k) == AfterItems(s, q, k)
           Bad == {k \in 0 .. Len(p) : P(k) # Q(k)}
<1>1. P(0) = s /\ \A k \in 1 .. Len(p) : P(k) = ApplyItem(P(k - 1), p[k])
  BY AfterItemsUnfold
<1>2. Q(0) = s /\ \A k \in 1 .. Len(q) : Q(k) = ApplyItem(Q(k - 1), q[k])
  BY AfterItemsUnfold
<1> HIDE DEF P, Q
<1>3. SUFFICES ASSUME Bad # {} PROVE FALSE
  BY Len(p) \in 0 .. Len(p) DEF UpdateMany, P, Q
<1>4. PICK m \in Bad : \A k \in Bad : m <= k
  BY <1>3, LeastNatural, Bad \in SUBSET Nat
<1>5. m # 0
  BY <1>1, <1>2, <1>4
<1>6. m - 1 \in 0 .. Len(p) /\ m - 1 \notin Bad /\ m \in 1 .. Len(p)
  BY <1>4, <1>5
<1>7. P(m - 1) = Q(m - 1)
  BY <1>6
<1>8. P(m) = Q(m)
  BY <1>1, <1>2, <1>6, <1>7
<1> QED BY <1>4, <1>8

(* If every item is valid, all are kept.                                   *)
LEMMA ValidItemsAll ==
    ASSUME NEW items \in Seq(Metric),
           \A i \in 1 .. Len(items) : Trim[items[i].id] # Blank /\ Usable(items[i])
    PROVE  ValidItems(items) = [i \in 1 .. Len(items) |-> Trimmed(items[i])]
<1> DEFINE f == CHOOSE f : IsValidLoop(f, items, Len(items))
           Kept(k) == [i \in 1 .. k |-> Trimmed(items[i])]
           Bad == {k \in 0 .. Len(items) : f[k] # Kept(k)}
<1>1. IsValidLoop(f, items, Len(items))
  BY ValidLoopExists, Len(items) \in Nat
<1>2. ValidItems(items) = f[Len(items)]
  BY DEF ValidItems, IsValidLoop
<1>3. \A i \in 0 .. Len(items) : f[i] = IF i = 0 THEN << >>
                                       ELSE IF Trim[items[i].id] # Blank /\ Usable(items[i])
                                            THEN Append(f[i-1], Trimmed(items[i]))
                                            ELSE f[i-1]
  BY <1>1 DEF IsValidLoop
<1> HIDE DEF f
<1>4. SUFFICES ASSUME Bad # {} PROVE FALSE
  BY <1>2, Len(items) \in 0 .. Len(items)
<1>5. PICK m \in Bad : \A k \in Bad : m <= k
  BY <1>4, LeastNatural, Bad \in SUBSET Nat
<1>6. m # 0
  <2>1. f[0] = << >>
    BY <1>3, 0 \in 0 .. Len(items)
  <2>2. Kept(0) = << >>
    OBVIOUS
  <2> QED BY <1>5, <2>1, <2>2
<1>7. m - 1 \in 0 .. Len(items) /\ m - 1 \notin Bad /\ m \in 1 .. Len(items)
  BY <1>5, <1>6
<1>8. f[m-1] = Kept(m - 1)
  BY <1>7
<1>9. f[m] = Append(Kept(m - 1), Trimmed(items[m]))
  BY <1>3, <1>6, <1>7, <1>8
<1>10. Append(Kept(m - 1), Trimmed(items[m])) = Kept(m)
  BY <1>7
<1> QED BY <1>5, <1>9, <1>10
=============================================================================
