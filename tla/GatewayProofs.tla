---------------------------- MODULE GatewayProofs ----------------------------
(* Proofs about the gateway and the two libraries it is built on: the metric  *)
(* store it reads, and the approval gate and token authority it owns. They    *)
(* hold for any number of servers, metrics, resolutions, requests and tokens, *)
(* any bucket widths, retention and lifetimes, wherever the clock is set, and *)
(* for any set of messages.                                                   *)
EXTENDS Gateway, TLAPS, WellFoundedInduction, FiniteSetTheorems

-----------------------------------------------------------------------------
(* Induction over data. The provers do not instantiate an induction theorem   *)
(* with a predicate, so induction is stated with sets: a set of naturals has a*)
(* least element, and from that come induction over finite sets, the existence*)
(* of folds, sums and extremes.                                               *)

(* A set of naturals that is not empty has a least element.                  *)
LEMMA LeastNatural ==
    ASSUME NEW S \in SUBSET Nat, S # {}
    PROVE  \E n \in S : \A m \in S : n <= m
  <1>1. PICK n \in S : \A m \in S : ~ (<<m, n>> \in OpToRel(<, Nat))
    BY WFMin, NatLessThanWellFounded
  <1>2. \A m \in S : ~(m < n)
    BY <1>1 DEF OpToRel
  <1> QED BY <1>2

(* C picks an element of every subset of S, and `it` folds H over the subsets*)
(* of S in the order in which C picks.                                       *)
Chooses(C, S) == \A s \in SUBSET S : s # {} => C[s] \in s

IsFold(it, S, base, C, H) ==
    /\ it[{}] = base
    /\ \A s \in SUBSET S : s # {} => it[s] = H[C[s]][it[s \ {C[s]}]]

(* There is such a fold, whatever is folded.                                 *)
LEMMA FoldExists ==
    ASSUME NEW S, IsFiniteSet(S), NEW V, NEW base \in V,
           NEW C, Chooses(C, S),
           NEW H \in [S -> [V -> V]]
    PROVE  \E it \in [SUBSET S -> V] : IsFold(it, S, base, C, H)
  <1> DEFINE Small(n) == {s \in SUBSET S : Cardinality(s) <= n}
             Next(it, s) == IF s = {} THEN base ELSE H[C[s]][it[s \ {C[s]}]]
             Good(n) == \E it \in [Small(n) -> V] : \A s \in Small(n) : it[s] = Next(it, s)
             Bad == {n \in Nat : ~Good(n)}
  <1>0. ASSUME NEW s \in SUBSET S
        PROVE  IsFiniteSet(s) /\ Cardinality(s) \in Nat /\ Cardinality(s) <= Cardinality(S)
    BY FS_Subset, FS_CardinalityType
  <1>1. Cardinality(S) \in Nat
    BY FS_CardinalityType
  <1>2. Bad = {}
    <2> SUFFICES ASSUME Bad # {} PROVE FALSE
      OBVIOUS
    <2>1. PICK n \in Bad : \A m \in Bad : n <= m
      <3>1. Bad \in SUBSET Nat
        OBVIOUS
      <3> HIDE DEF Bad
      <3> QED BY <3>1, LeastNatural
    <2>2. n \in Nat /\ ~Good(n)
      BY <2>1
    <2>3. n # 0
      <3> SUFFICES Good(0)
        <4> HIDE DEF Good
        <4> QED BY <2>2
      <3>1. \A s \in Small(0) : s = {}
        BY <1>0, FS_EmptySet
      <3>2. [s \in Small(0) |-> base] \in [Small(0) -> V]
        OBVIOUS
      <3> HIDE DEF Small
      <3> QED BY <3>1, <3>2
    <2>4. n - 1 \in Nat /\ Good(n - 1)
      <3> HIDE DEF Good
      <3>1. n - 1 \in Nat /\ ~(n <= n - 1)
        BY <2>2, <2>3
      <3> QED BY <2>1, <3>1
    <2>5. PICK it \in [Small(n - 1) -> V] : \A s \in Small(n - 1) : it[s] = Next(it, s)
      BY <2>4
    <2>6. ASSUME NEW s \in Small(n), s # {}
          PROVE  s \ {C[s]} \in Small(n - 1) /\ C[s] \in S
      <3>1. C[s] \in s
        BY <2>6 DEF Chooses
      <3>2. Cardinality(s \ {C[s]}) = Cardinality(s) - 1
        BY <1>0, <3>1, FS_RemoveElement
      <3> QED BY <1>0, <2>2, <3>1, <3>2
    <2>7. Small(n - 1) \subseteq Small(n)
      BY <1>0, <2>2
    <2> DEFINE jt == [s \in Small(n) |-> Next(it, s)]
    <2> HIDE DEF Small
    <2>8. \A s \in Small(n - 1) : jt[s] = it[s]
      BY <2>5, <2>7
    <2>9. jt \in [Small(n) -> V]
      BY <2>6
    <2>10. ASSUME NEW s \in Small(n) PROVE jt[s] = Next(jt, s)
      <3>1. CASE s = {}
        BY <3>1
      <3>2. CASE s # {}
        BY <3>2, <2>6, <2>8
      <3> QED BY <3>1, <3>2
    <2> HIDE DEF jt, Next
    <2> QED BY <2>2, <2>9, <2>10
  <1>3. Good(Cardinality(S))
    BY <1>1, <1>2
  <1>4. Small(Cardinality(S)) = SUBSET S
    BY <1>0, <1>1
  <1>5. PICK it \in [SUBSET S -> V] : \A s \in SUBSET S : it[s] = Next(it, s)
    BY <1>3, <1>4
  <1>6. {} \in SUBSET S
    OBVIOUS
  <1> QED BY <1>5, <1>6 DEF IsFold

(* Induction over the subsets of a finite set, for a set P of subsets: one   *)
(* way of taking an element out of each is enough.                           *)
LEMMA SubsetInduction ==
    ASSUME NEW S, IsFiniteSet(S), NEW P, {} \in P,
           \A s \in SUBSET S : s # {} => \E x \in s : s \ {x} \in P => s \in P
    PROVE  \A s \in SUBSET S : s \in P
  <1> DEFINE Bad == {Cardinality(s) : s \in (SUBSET S) \ P}
  <1>0. ASSUME NEW s \in SUBSET S
        PROVE  IsFiniteSet(s) /\ Cardinality(s) \in Nat
    BY FS_Subset, FS_CardinalityType
  <1> SUFFICES ASSUME Bad # {} PROVE FALSE
    OBVIOUS
  <1>1. Bad \in SUBSET Nat
    BY <1>0
  <1>2. PICK n \in Bad : \A m \in Bad : n <= m
    <2> HIDE DEF Bad
    <2> QED BY <1>1, LeastNatural
  <1>3. PICK s \in (SUBSET S) \ P : n = Cardinality(s)
    BY <1>2
  <1>4. PICK x \in s : s \ {x} \notin P
    BY <1>3
  <1>5. Cardinality(s \ {x}) = n - 1 /\ n \in Nat
    BY <1>0, <1>3, <1>4, FS_RemoveElement
  <1>6. s \ {x} \in (SUBSET S) \ P
    BY <1>4
  <1>7. n - 1 \in Bad
    BY <1>5, <1>6
  <1> HIDE DEF Bad
  <1> QED BY <1>2, <1>5, <1>7

(* The sum of the values of a function is what its recursion says.           *)
LEMMA SumIsFold ==
    ASSUME NEW S, IsFiniteSet(S), NEW f \in [S -> Int]
    PROVE  \E it \in [SUBSET S -> Int] :
              /\ it[{}] = 0
              /\ \A s \in SUBSET S : s # {} => \E x \in s : it[s] = f[x] + it[s \ {x}]
              /\ FoldFunction(+, 0, f) = it[S]
  <1> DEFINE Pick(s) == CHOOSE x \in s : TRUE
             C == [s \in SUBSET S |-> Pick(s)]
             H == [x \in S |-> [v \in Int |-> f[x] + v]]
             Sums(it) == [s \in SUBSET S |-> IF s = {} THEN 0 ELSE f[Pick(s)] + it[s \ {Pick(s)}]]
             sum == CHOOSE it : it = Sums(it)
  <1>1. \A s \in SUBSET S : s # {} => Pick(s) \in s
    OBVIOUS
  <1>2. PICK it \in [SUBSET S -> Int] :
           IsFold(it, S, 0, C, H)
    <2>1. H \in [S -> [Int -> Int]]
      OBVIOUS
    <2>2. Chooses(C, S)
      BY <1>1 DEF Chooses
    <2>3. 0 \in Int
      OBVIOUS
    <2> HIDE DEF C, H
    <2> QED BY <2>1, <2>2, <2>3, FoldExists
  <1>3. it = Sums(it)
    <2>1. ASSUME NEW s \in SUBSET S, s # {}
          PROVE  it[s] = f[Pick(s)] + it[s \ {Pick(s)}]
      <3>1. C[s] = Pick(s) /\ Pick(s) \in S /\ s \ {Pick(s)} \in SUBSET S
        BY <1>1, <2>1
      <3> HIDE DEF C, Pick
      <3> QED BY <1>2, <2>1, <3>1 DEF IsFold
    <2> HIDE DEF C, H, Pick
    <2> QED BY <1>2, <2>1 DEF IsFold
  <1>4. sum = Sums(sum)
    <2> HIDE DEF Sums
    <2> QED BY <1>3
  <1>5. FoldFunction(+, 0, f) = sum[S]
    BY DEF FoldFunction, FoldFunctionOnSet, MapThenFoldSet
  <1>6. sum[{}] = 0 /\ \A s \in SUBSET S : s # {} => sum[s] = f[Pick(s)] + sum[s \ {Pick(s)}]
    <2> HIDE DEF sum, Pick
    <2> QED BY <1>4
  <1>7. \A s \in SUBSET S : sum[s] \in Int
    <2> DEFINE P == {s \in SUBSET S : sum[s] \in Int}
    <2>1. {} \in P
      BY <1>6
    <2>2. ASSUME NEW s \in SUBSET S, s # {}
          PROVE  \E x \in s : s \ {x} \in P => s \in P
      <3>1. Pick(s) \in s /\ Pick(s) \in S
        BY <1>1, <2>2
      <3> HIDE DEF sum, Pick
      <3>2. sum[s] = f[Pick(s)] + sum[s \ {Pick(s)}] /\ f[Pick(s)] \in Int
        BY <1>6, <2>2, <3>1
      <3>3. s \ {Pick(s)} \in P => s \in P
        BY <3>2
      <3> QED BY <3>1, <3>3
    <2>3. \A s \in SUBSET S : s \in P
      <3> HIDE DEF P
      <3> QED BY <2>1, <2>2, SubsetInduction
    <2> QED BY <2>3
  <1>8. DOMAIN sum = SUBSET S
    <2> HIDE DEF sum, Pick
    <2> QED BY <1>4
  <1> HIDE DEF sum, Pick
  <1>9. sum \in [SUBSET S -> Int]
    <2>1. sum = [s \in SUBSET S |-> sum[s]]
      <3> HIDE DEF Sums
      <3>1. \E g : g = sum /\ g = Sums(g)
        BY <1>4
      <3> QED BY <1>4 DEF Sums
    <2> QED BY <1>7, <2>1
  <1> QED BY <1>1, <1>5, <1>6, <1>9

(* A sum lies between the number of its terms times a lower and times an     *)
(* upper bound of them.                                                      *)
LEMMA SumBounds ==
    ASSUME NEW S, IsFiniteSet(S), NEW f \in [S -> Int], NEW lo \in Int, NEW hi \in Int,
           \A x \in S : lo <= f[x] /\ f[x] <= hi
    PROVE  /\ FoldFunction(+, 0, f) \in Int
           /\ lo * Cardinality(S) <= FoldFunction(+, 0, f)
           /\ FoldFunction(+, 0, f) <= hi * Cardinality(S)
  <1>1. PICK it \in [SUBSET S -> Int] :
              /\ it[{}] = 0
              /\ \A s \in SUBSET S : s # {} => \E x \in s : it[s] = f[x] + it[s \ {x}]
              /\ FoldFunction(+, 0, f) = it[S]
    BY SumIsFold
  <1> DEFINE P == {s \in SUBSET S : lo * Cardinality(s) <= it[s] /\ it[s] <= hi * Cardinality(s)}
  <1>2. {} \in P
    <2>1. lo * 0 = 0 /\ hi * 0 = 0
      OBVIOUS
    <2>2. it[{}] = 0 /\ Cardinality({}) = 0
      BY <1>1, FS_EmptySet
    <2>3. {} \in SUBSET S
      OBVIOUS
    <2> QED BY <2>1, <2>2, <2>3
  <1>3. ASSUME NEW s \in SUBSET S, s # {}
        PROVE  \E x \in s : s \ {x} \in P => s \in P
    <2>1. PICK x \in s : it[s] = f[x] + it[s \ {x}]
      BY <1>1, <1>3
    <2>2. PICK n \in Nat : Cardinality(s) = n + 1 /\ Cardinality(s \ {x}) = n
      <3>1. IsFiniteSet(s)
        BY FS_Subset
      <3>2. IsFiniteSet(s \ {x}) /\ Cardinality(s \ {x}) = Cardinality(s) - 1
        BY <3>1, FS_RemoveElement
      <3>3. Cardinality(s) \in Nat /\ Cardinality(s \ {x}) \in Nat
        BY <3>1, <3>2, FS_CardinalityType
      <3> QED BY <3>2, <3>3
    <2>3. s \ {x} \in SUBSET S /\ x \in S
      OBVIOUS
    <2>4. PICK a \in Int, b \in Int : a = f[x] /\ b = it[s \ {x}]
      BY <2>3
    <2>5. lo * (n + 1) = lo * n + lo /\ hi * (n + 1) = hi * n + hi
      OBVIOUS
    <2>6. lo * n \in Int /\ hi * n \in Int
      OBVIOUS
    <2>7. ASSUME lo * n <= b, b <= hi * n
          PROVE  lo * (n + 1) <= a + b /\ a + b <= hi * (n + 1)
      <3>1. lo <= a /\ a <= hi
        BY <2>3, <2>4
      <3> QED BY <2>5, <2>6, <2>7, <3>1
    <2> QED BY <2>1, <2>2, <2>3, <2>4, <2>7
  <1>4. S \in P
    <2>1. S \in SUBSET S
      OBVIOUS
    <2> HIDE DEF P
    <2> QED BY <1>2, <1>3, <2>1, SubsetInduction
  <1>5. it[S] \in Int /\ lo * Cardinality(S) <= it[S] /\ it[S] <= hi * Cardinality(S)
    BY <1>4
  <1> QED BY <1>1, <1>5, Zenon

(* A finite set of integers that is not empty has a least and a greatest one.*)
LEMMA Extremes ==
    ASSUME NEW S \in SUBSET Int, IsFiniteSet(S), S # {}
    PROVE  /\ Min(S) \in S /\ \A x \in S : Min(S) <= x
           /\ Max(S) \in S /\ \A x \in S : x <= Max(S)
  <1> DEFINE P == {s \in SUBSET S : s # {} => /\ \E x \in s : \A y \in s : x <= y
                                              /\ \E x \in s : \A y \in s : x >= y}
  <1>1. ASSUME NEW s \in SUBSET S, s # {}
        PROVE  \E x \in s : s \ {x} \in P => s \in P
    <2> SUFFICES ASSUME NEW x \in s, s \ {x} \in P PROVE s \in P
      BY <1>1
    <2>1. \A y \in s : y \in Int
      OBVIOUS
    <2>2. CASE s = {x}
      BY <2>1, <2>2
    <2>3. CASE s # {x}
      <3>1. s \ {x} # {}
        BY <1>1, <2>3
      <3>2. PICK a \in s \ {x} : \A y \in s \ {x} : a <= y
        BY <3>1
      <3>3. PICK b \in s \ {x} : \A y \in s \ {x} : b >= y
        BY <3>1
      <3>4. \E z \in s : \A y \in s : z <= y
        <4>1. CASE a <= x
          BY <3>2, <4>1
        <4>2. CASE ~(a <= x)
          <5>1. \A y \in s : x <= y
            BY <2>1, <3>2, <4>2
          <5> QED BY <5>1
        <4> QED BY <4>1, <4>2
      <3>5. \E z \in s : \A y \in s : z >= y
        <4>1. CASE b >= x
          BY <3>3, <4>1
        <4>2. CASE ~(b >= x)
          <5>1. \A y \in s : x >= y
            BY <2>1, <3>3, <4>2
          <5> QED BY <5>1
        <4> QED BY <4>1, <4>2
      <3> QED BY <3>4, <3>5
    <2> QED BY <2>2, <2>3
  <1>2. {} \in P
    OBVIOUS
  <1>3. S \in P
    <2> HIDE DEF P
    <2>1. S \in SUBSET S
      OBVIOUS
    <2> QED BY <1>1, <1>2, <2>1, SubsetInduction
  <1>4. Min(S) \in S /\ \A x \in S : Min(S) <= x
    BY <1>3 DEF Min
  <1>5. Max(S) \in S /\ \A x \in S : Max(S) >= x
    BY <1>3 DEF Max
  <1> QED BY <1>4, <1>5

-----------------------------------------------------------------------------
(* The metric store.                                                         *)

(* The inductive invariant behind RollUpNeverForgets. A bucket remembers only *)
(* samples of its own span (BucketsHold), and each of them is still stored or *)
(* was removed by retention (BucketsBacked): a roll-up finds all the others.  *)
SamplesShaped ==
    \A k \in DOMAIN samples : k \in Key

BucketsHold ==
    \A b \in DOMAIN aggs : \A t \in aggs[b].of :
        b = BucketOf(b.res, KeyOf(b.server, b.metric, t))

BucketsBacked ==
    \A b \in DOMAIN aggs : \A t \in aggs[b].of :
        KeyOf(b.server, b.metric, t) \in DOMAIN samples \cup pruned

StoreInv == SamplesShaped /\ BucketsHold /\ BucketsBacked

(* A key is its server, its metric and its instant.                          *)
LEMMA KeyIsKeyOf ==
    ASSUME NEW k \in Key
    PROVE  k = KeyOf(k.server, k.metric, k.ts)
  BY DEF Key, KeyOf

(* The instants a summary was computed from are those of its group.          *)
LEMMA SummariseOf ==
    ASSUME NEW keys
    PROVE  Summarise(keys).of = {k.ts : k \in keys}
  BY DEF Summarise

(* The rank of the 95th percentile is one of the ranks of a group, whatever  *)
(* its size: (n * 95 + 99) / 100 in the query of roll_up neither misses a    *)
(* group of one nor exceeds a large one.                                     *)
THEOREM P95RankIsARank ==
    ASSUME NEW n \in Nat \ {0}
    PROVE  /\ P95Rank(n) \in 1..n
           /\ 100 * P95Rank(n) >= 95 * n
           /\ 100 * (P95Rank(n) - 1) < 95 * n
  BY DEF P95Rank

LEMMA StoreInit == MetricsInit => StoreInv
  BY DEF MetricsInit, StoreInv, SamplesShaped, BucketsHold, BucketsBacked

(* After a roll-up a bucket it wrote remembers the stored samples of its     *)
(* span before the horizon, and the other buckets what they did.             *)
LEMMA RolledUp ==
    ASSUME StoreInv, NEW res \in RollupNames, NEW before \in Time, RollUp(res, before),
           NEW b \in DOMAIN aggs'
    PROVE  \/ b \in DOMAIN aggs /\ aggs'[b] = aggs[b]
           \/ aggs'[b].of = {k.ts : k \in {x \in DOMAIN samples :
                                             x.ts < before /\ BucketOf(res, x) = b}}
  <1> DEFINE keys == Folded(res, before)
             buckets == {BucketOf(res, k) : k \in keys}
             group(c) == {k \in keys : BucketOf(res, k) = c}
  <1>1. aggs' = [c \in DOMAIN aggs \cup buckets |->
                    IF c \in buckets THEN Summarise(group(c)) ELSE aggs[c]]
    BY DEF RollUp
  <1>2. CASE b \in buckets
    <2>1. aggs'[b] = Summarise(group(b))
      BY <1>1, <1>2
    <2>2. group(b) = {x \in DOMAIN samples : x.ts < before /\ BucketOf(res, x) = b}
      BY DEF Folded
    <2> HIDE DEF group
    <2> QED BY <2>1, <2>2, SummariseOf
  <1>3. CASE b \notin buckets
    <2> HIDE DEF buckets, group
    <2> QED BY <1>1, <1>3
  <1> QED BY <1>2, <1>3

LEMMA RollUpInv ==
    ASSUME StoreInv, NEW res \in RollupNames, NEW before \in Time, RollUp(res, before)
    PROVE  StoreInv'
  <1>1. UNCHANGED <<samples, pruned>>
    BY DEF RollUp
  <1>2. SamplesShaped'
    BY <1>1 DEF StoreInv, SamplesShaped
  <1>3. ASSUME NEW b \in DOMAIN aggs', NEW t \in aggs'[b].of
        PROVE  /\ b = BucketOf(b.res, KeyOf(b.server, b.metric, t))
               /\ KeyOf(b.server, b.metric, t) \in DOMAIN samples \cup pruned
    <2>1. CASE b \in DOMAIN aggs /\ aggs'[b] = aggs[b]
      BY <1>3, <2>1 DEF StoreInv, BucketsHold, BucketsBacked
    <2>2. CASE aggs'[b].of = {k.ts : k \in {x \in DOMAIN samples :
                                             x.ts < before /\ BucketOf(res, x) = b}}
      <3>1. PICK k \in DOMAIN samples : BucketOf(res, k) = b /\ k.ts = t
        BY <1>3, <2>2
      <3>2. k \in Key
        BY DEF StoreInv, SamplesShaped
      <3>3. b.res = res /\ b.server = k.server /\ b.metric = k.metric
        BY <3>1 DEF BucketOf
      <3>4. k = KeyOf(b.server, b.metric, t)
        BY <3>1, <3>2, <3>3, KeyIsKeyOf
      <3> QED BY <3>1, <3>3, <3>4
    <2> QED BY <2>1, <2>2, RolledUp
  <1>4. BucketsHold' /\ BucketsBacked'
    BY <1>1, <1>3 DEF BucketsHold, BucketsBacked
  <1> QED BY <1>2, <1>4 DEF StoreInv

(* One statement of the store, for a frame of any metrics and values.        *)
StoreStep ==
    \/ \E s \in Servers, t \in Time, ms \in SUBSET MetricKeys : \E batch \in [ms -> Values] :
          InsertSamples(s, t, batch)
    \/ \E res \in RollupNames, before \in Time : RollUp(res, before)
    \/ \E now \in Time : PruneRaw(now)
    \/ PruneRollup \/ PruneStops
    \/ \E s \in Servers : ForgetServer(s)

StoreSpec == MetricsInit /\ [][StoreStep]_metricVars

LEMMA MetricsStep == MetricsNext => StoreStep
  <1>1. \A batch \in Batches : \E ms \in SUBSET MetricKeys : batch \in [ms -> Values]
    BY MetricsAssumption
  <1> QED BY <1>1 DEF MetricsNext, StoreStep

(* A frame adds samples of the metrics it has.                               *)
LEMMA InsertInv ==
    ASSUME StoreInv, NEW s \in Servers, NEW t \in Time, NEW batch,
           DOMAIN batch \subseteq MetricKeys, InsertSamples(s, t, batch)
    PROVE  StoreInv'
  <1> USE DEF StoreInv, SamplesShaped, BucketsHold, BucketsBacked
  <1>1. /\ DOMAIN samples' = DOMAIN samples \cup {KeyOf(s, m, t) : m \in DOMAIN batch}
        /\ UNCHANGED <<aggs, pruned>>
    BY DEF InsertSamples
  <1>2. \A m \in DOMAIN batch : KeyOf(s, m, t) \in Key
    BY DEF KeyOf, Key
  <1>3. SamplesShaped'
    BY <1>1, <1>2
  <1> QED BY <1>1, <1>3

LEMMA StoreStepInv == StoreInv /\ [StoreStep]_metricVars => StoreInv'
  <1> SUFFICES ASSUME StoreInv, [StoreStep]_metricVars PROVE StoreInv'
    OBVIOUS
  <1>1. ASSUME NEW s \in Servers, NEW t \in Time, NEW batch,
               DOMAIN batch \subseteq MetricKeys, InsertSamples(s, t, batch)
        PROVE  StoreInv'
    BY <1>1, InsertInv
  <1>2. ASSUME NEW res \in RollupNames, NEW before \in Time, RollUp(res, before)
        PROVE  StoreInv'
    BY <1>2, RollUpInv
  <1> USE DEF StoreInv, SamplesShaped, BucketsHold, BucketsBacked
  <1>3. ASSUME NEW now \in Time, PruneRaw(now)
        PROVE  StoreInv'
    <2>1. /\ DOMAIN samples' \subseteq DOMAIN samples
          /\ DOMAIN samples \subseteq DOMAIN samples' \cup pruned'
          /\ pruned \subseteq pruned'
          /\ UNCHANGED aggs
      BY <1>3 DEF PruneRaw
    <2> QED BY <2>1
  <1>4. CASE PruneRollup
    <2>1. /\ DOMAIN aggs' \subseteq DOMAIN aggs
          /\ \A b \in DOMAIN aggs' : aggs'[b] = aggs[b]
          /\ UNCHANGED <<samples, pruned>>
      BY <1>4 DEF PruneRollup
    <2> QED BY <2>1
  <1>5. CASE PruneStops
    BY <1>5 DEF PruneStops
  <1>6. ASSUME NEW s \in Servers, ForgetServer(s)
        PROVE  StoreInv'
    <2>1. /\ DOMAIN samples' = {x \in DOMAIN samples : x.server # s}
          /\ DOMAIN aggs' = {x \in DOMAIN aggs : x.server # s}
          /\ \A b \in DOMAIN aggs' : aggs'[b] = aggs[b]
          /\ UNCHANGED pruned
      BY <1>6 DEF ForgetServer
    <2>2. \A b \in DOMAIN aggs' : \A t : KeyOf(b.server, b.metric, t).server # s
      BY <2>1 DEF KeyOf
    <2> QED BY <2>1, <2>2
  <1>7. CASE UNCHANGED metricVars
    BY <1>7 DEF metricVars, storeVars
  <1> HIDE DEF StoreInv, SamplesShaped, BucketsHold, BucketsBacked
  <1> QED BY <1>1, <1>2, <1>3, <1>4, <1>5, <1>6, <1>7 DEF StoreStep

(* A bucket is backed by samples that are stored or were removed by          *)
(* retention, in every state the store reaches.                              *)
THEOREM BucketsAreBacked == StoreSpec => []StoreInv
  BY StoreInit, StoreStepInv, PTL DEF StoreSpec

LEMMA ChartsAreStoreSteps == MetricsSpec => StoreSpec
  BY MetricsStep, PTL DEF MetricsSpec, StoreSpec

(* One step of the store, from a state that satisfies the invariant.         *)
LEMMA RollUpKeeps ==
    ASSUME StoreInv, [StoreStep]_metricVars,
           NEW b \in DOMAIN aggs \cap DOMAIN aggs', NEW t \in aggs[b].of \ aggs'[b].of
    PROVE  KeyOf(b.server, b.metric, t) \in pruned \/ t >= horizon'
  <1>1. CASE aggs'[b] = aggs[b]
    BY <1>1
  <1>2. ASSUME NEW res \in RollupNames, NEW before \in Time, RollUp(res, before),
               aggs'[b] # aggs[b], KeyOf(b.server, b.metric, t) \notin pruned
        PROVE  t >= horizon'
    <2>1. aggs'[b].of = {k.ts : k \in {x \in DOMAIN samples :
                                          x.ts < before /\ BucketOf(res, x) = b}}
      BY <1>2, RolledUp
    <2>2. PICK k \in DOMAIN samples : k = KeyOf(b.server, b.metric, t)
      BY <1>2 DEF StoreInv, BucketsBacked
    <2>3. k \in Key /\ k.ts = t
      BY <2>2 DEF StoreInv, SamplesShaped, KeyOf
    <2>4. b.res = res
      <3>1. b \in {BucketOf(res, x) : x \in Folded(res, before)}
        BY <1>2 DEF RollUp
      <3> QED BY <3>1 DEF BucketOf
    <2>5. BucketOf(res, k) = b
      BY <2>2, <2>4 DEF StoreInv, BucketsHold
    <2>6. ~(t < before)
      BY <2>1, <2>3, <2>5
    <2> QED BY <1>2, <2>3, <2>6 DEF RollUp, Key, Time
  <1>3. aggs'[b] = aggs[b] \/ \E res \in RollupNames, before \in Time : RollUp(res, before)
    BY DEF StoreStep, InsertSamples, PruneRaw, PruneRollup, PruneStops, ForgetServer,
           metricVars, storeVars
  <1> QED BY <1>1, <1>2, <1>3

(* RollUpNeverForgets for any number of servers, metrics and resolutions: a  *)
(* bucket that is written again loses only samples that retention removed or *)
(* that the caller's `before` excludes (metrics.rs, roll_up against prune).  *)
THEOREM RollUpsKeep == StoreSpec => RollUpNeverForgets
  <1>1. StoreInv /\ [StoreStep]_metricVars =>
          [\A b \in DOMAIN aggs \cap DOMAIN aggs' : \A t \in aggs[b].of \ aggs'[b].of :
              \/ KeyOf(b.server, b.metric, t) \in pruned
              \/ t >= horizon']_metricVars
    BY RollUpKeeps
  <1> QED BY <1>1, BucketsAreBacked, PTL DEF StoreSpec, RollUpNeverForgets

(* What a roll-up writes of a group: an average between its least and its    *)
(* greatest sample, and a 95th percentile that is one of the samples.        *)
LEMMA SummaryFact ==
    ASSUME NEW g, IsFiniteSet(g), g # {}, \A k \in g : samples[k] \in Int
    PROVE  LET s == Summarise(g)
               values == {samples[k] : k \in g}
           IN /\ s = [sum |-> s.sum, min |-> s.min, max |-> s.max, p95 |-> s.p95,
                      samples |-> s.samples, of |-> s.of]
              /\ s.sum \in Int /\ s.samples = Cardinality(g)
              /\ s.min \in values /\ s.max \in values /\ s.p95 \in values
              /\ s.min <= s.p95 /\ s.p95 <= s.max
              /\ s.min * s.samples <= s.sum /\ s.sum <= s.max * s.samples
  <1> DEFINE f == [k \in g |-> samples[k]]
             below(v) == {k \in DOMAIN f : f[k] <= v}
             ranked == {v \in Range(f) : Cardinality(below(v)) >= P95Rank(Cardinality(DOMAIN f))}
             s == Summarise(g)
             values == {samples[k] : k \in g}
  <1>1. f \in [g -> Int] /\ DOMAIN f = g /\ Range(f) = values /\ \A k \in g : f[k] = samples[k]
    BY DEF Range
  <1>2. /\ s = [sum |-> FoldFunction(+, 0, f), min |-> Min(Range(f)), max |-> Max(Range(f)),
                p95 |-> P95(f), samples |-> Cardinality(g), of |-> {k.ts : k \in g}]
    BY DEF Summarise
  <1>3. P95(f) = Min(ranked)
    BY DEF P95
  <1>4. Cardinality(g) \in Nat \ {0}
    BY FS_CardinalityType, FS_EmptySet
  <1> HIDE DEF s
  <1>5. /\ s.sum = FoldFunction(+, 0, f)
        /\ s.min = Min(Range(f)) /\ s.max = Max(Range(f)) /\ s.p95 = P95(f)
        /\ s.samples = Cardinality(g)
        /\ s = [sum |-> s.sum, min |-> s.min, max |-> s.max, p95 |-> s.p95,
                samples |-> s.samples, of |-> s.of]
    <2>1. PICK total : total = FoldFunction(+, 0, f)
      OBVIOUS
    <2>2. s = [sum |-> total, min |-> Min(Range(f)), max |-> Max(Range(f)),
                p95 |-> P95(f), samples |-> Cardinality(g), of |-> {k.ts : k \in g}]
      BY <1>2, <2>1, Zenon
    <2> HIDE DEF f
    <2>3. s.sum = total
      BY <2>2
    <2> QED BY <2>1, <2>2, <2>3
  <1>6. IsFiniteSet(Range(f)) /\ Range(f) # {} /\ Range(f) \in SUBSET Int
    <2>1. f \in Surjection(g, Range(f))
      BY <1>1 DEF Range, Surjection
    <2>2. IsFiniteSet(Range(f))
      <3> HIDE DEF f
      <3> QED BY <2>1, FS_Surjection
    <2> QED BY <1>1, <2>2
  <1>7. /\ s.min \in Range(f) /\ \A v \in Range(f) : s.min <= v
        /\ s.max \in Range(f) /\ \A v \in Range(f) : v <= s.max
    <2>1. PICK S : S = Range(f)
      OBVIOUS
    <2>2. S \in SUBSET Int /\ IsFiniteSet(S) /\ S # {}
      <3> HIDE DEF f
      <3> QED BY <1>6, <2>1
    <2>3. PICK lo, hi : lo = Min(S) /\ hi = Max(S)
      OBVIOUS
    <2>4. /\ lo \in S /\ \A v \in S : lo <= v
          /\ hi \in S /\ \A v \in S : v <= hi
      BY <2>2, <2>3, Extremes
    <2>5. s.min = lo /\ s.max = hi
      <3> HIDE DEF f
      <3> QED BY <1>5, <2>1, <2>3
    <2> HIDE DEF f
    <2> QED BY <2>1, <2>4, <2>5
  <1>8. s.p95 \in Range(f)
    <2>1. below(s.max) = g
      BY <1>1, <1>7
    <2>2. P95Rank(Cardinality(g)) <= Cardinality(g)
      <3> PICK n \in Nat \ {0} : n = Cardinality(g)
        BY <1>4
      <3>1. P95Rank(n) \in 1..n
        BY P95RankIsARank
      <3> QED BY <3>1
    <2>3. s.max \in ranked
      <3>1. P95Rank(Cardinality(g)) \in Nat
        BY <1>4 DEF P95Rank
      <3> HIDE DEF f, below
      <3> QED BY <1>1, <1>4, <1>7, <2>1, <2>2, <3>1
    <2>4. ranked \in SUBSET Int /\ IsFiniteSet(ranked)
      <3>1. ranked \in SUBSET Range(f)
        OBVIOUS
      <3> HIDE DEF ranked, f
      <3> QED BY <1>6, <3>1, FS_Subset
    <2>5. Min(ranked) \in ranked
      <3> HIDE DEF ranked
      <3> QED BY <2>3, <2>4, Extremes
    <2>6. Min(ranked) \in Range(f)
      BY <2>5
    <2> QED BY <1>3, <1>5, <2>6
  <1>9. s.sum \in Int /\ s.min * s.samples <= s.sum /\ s.sum <= s.max * s.samples
    <2>1. s.min \in Int /\ s.max \in Int
      BY <1>6, <1>7
    <2>2. \A k \in g : s.min <= f[k] /\ f[k] <= s.max
      BY <1>1, <1>7
    <2> HIDE DEF f
    <2>3. PICK lo \in Int, hi \in Int : lo = s.min /\ hi = s.max
      BY <2>1
    <2>4. /\ FoldFunction(+, 0, f) \in Int
          /\ lo * Cardinality(g) <= FoldFunction(+, 0, f)
          /\ FoldFunction(+, 0, f) <= hi * Cardinality(g)
      BY <1>1, <2>2, <2>3, SumBounds
    <2> QED BY <1>5, <2>3, <2>4, Zenon
  <1> HIDE DEF f
  <1>10. s.min <= s.p95 /\ s.p95 <= s.max
    BY <1>7, <1>8
  <1> QED BY <1>1, <1>5, <1>7, <1>8, <1>9, <1>10 DEF s

(* The beginning of a bucket: an instant lies within a width of it.          *)
LEMMA InItsBucket ==
    ASSUME NEW t \in Time, NEW w \in Nat \ {0}
    PROVE  /\ t - (t % w) \in Time
           /\ t \in (t - (t % w))..(t - (t % w) + w - 1)
  <1>1. t \in Nat /\ t <= MaxTime /\ MaxTime \in Nat
    BY MetricsAssumption DEF Time
  <1>2. t % w \in 0..(w - 1)
    BY <1>1
  <1>3. t % w <= t
    <2>1. PICK q \in Nat, r \in 0..(w - 1) : q = t \div w /\ r = t % w /\ t = w * q + r
      BY <1>1
    <2>2. w * q \in Nat
      BY <2>1
    <2> QED BY <1>1, <2>1, <2>2
  <1> QED BY <1>1, <1>2, <1>3 DEF Time

GroupOf(res, before, b) == {k \in Folded(res, before) : BucketOf(res, k) = b}

(* The samples that fall into a bucket: at least one, at most as many as the *)
(* bucket is wide, because a metric has one sample per instant.              *)
LEMMA GroupFact ==
    ASSUME MetricsTypeOK, NEW res \in RollupNames, NEW before \in Time,
           NEW k0 \in Folded(res, before), NEW b, b = BucketOf(res, k0),
           NEW g, g = GroupOf(res, before, b)
    PROVE  /\ b \in [server : live, metric : MetricKeys, res : {res}, start : Time]
           /\ g # {} /\ IsFiniteSet(g) /\ Cardinality(g) \in 1..BucketMs[res]
           /\ \A k \in g : /\ k \in DOMAIN samples
                           /\ k.server = b.server /\ k.metric = b.metric
                           /\ k.ts \in b.start..(b.start + BucketMs[res] - 1)
  <1>2. BucketMs[res] \in Nat \ {0}
    BY MetricsAssumption
  <1>3. ASSUME NEW k \in g
        PROVE  /\ k \in DOMAIN samples /\ k \in [server : live, metric : MetricKeys, ts : Time]
               /\ b = [server |-> k.server, metric |-> k.metric, res |-> res,
                       start |-> k.ts - (k.ts % BucketMs[res])]
    BY DEF Folded, MetricsTypeOK, BucketOf, GroupOf
  <1>4. k0 \in g
    BY DEF GroupOf
  <1>5. \A k \in g : k.ts \in Time /\ k.server = b.server /\ k.metric = b.metric
                     /\ b.start = k.ts - (k.ts % BucketMs[res])
    BY <1>3
  <1>6. b \in [server : live, metric : MetricKeys, res : {res}, start : Time]
    <2>1. b.start \in Time
      BY <1>2, <1>4, <1>5, InItsBucket
    <2> QED BY <1>3, <1>4, <2>1
  <1>7. \A k \in g : k.ts \in b.start..(b.start + BucketMs[res] - 1)
    BY <1>2, <1>5, InItsBucket
  <1> DEFINE span == b.start..(b.start + BucketMs[res] - 1)
             at == [k \in g |-> k.ts]
  <1>8. b.start \in Int
    BY <1>6 DEF Time
  <1>9. IsFiniteSet(span) /\ Cardinality(span) = BucketMs[res]
    <2>1. PICK a \in Int, c \in Int :
             a = b.start /\ c = b.start + BucketMs[res] - 1 /\ ~(a > c) /\ c - a + 1 = BucketMs[res]
      BY <1>2, <1>8
    <2>2. IsFiniteSet(a..c) /\ Cardinality(a..c) = c - a + 1
      BY <2>1, FS_Interval
    <2> QED BY <2>1, <2>2
  <1>10. at \in Injection(g, span)
    <2>1. ASSUME NEW k \in g, NEW l \in g, k.ts = l.ts
          PROVE  k = l
      <3>1. k.server = l.server /\ k.metric = l.metric
        BY <1>5
      <3>2. /\ k \in [server : live, metric : MetricKeys, ts : Time]
            /\ l \in [server : live, metric : MetricKeys, ts : Time]
        BY <1>3
      <3> QED BY <2>1, <3>1, <3>2
    <2>2. at \in [g -> span]
      BY <1>7
    <2>3. \A k, l \in g : at[k] = at[l] => k = l
      BY <2>1
    <2> HIDE DEF at, span
    <2> QED BY <2>2, <2>3 DEF Injection, IsInjective
  <1>11. IsFiniteSet(g) /\ Cardinality(g) <= BucketMs[res]
    <2> HIDE DEF at, span
    <2> QED BY <1>9, <1>10, FS_Injection
  <1>12. Cardinality(g) \in Nat /\ Cardinality(g) # 0
    BY <1>4, <1>11, FS_CardinalityType, FS_EmptySet
  <1> QED BY <1>2, <1>3, <1>4, <1>5, <1>6, <1>7, <1>11, <1>12

(* The inductive invariant behind ChartPointsAreObserved: a stored sample was *)
(* recorded, and a bucket keeps a count no larger than its width and a sum    *)
(* that lies between two samples recorded in its span, times the count.       *)
SamplesRecorded ==
    \A k \in DOMAIN samples : <<k, samples[k]>> \in recorded

InSpan(k, b) ==
    /\ k.server = b.server /\ k.metric = b.metric
    /\ k.ts \in b.start..(b.start + BucketMs[b.res] - 1)

Averaged(a, b, log) ==
    /\ a.samples \in 1..BucketMs[b.res]
    /\ \E lo, hi \in Int :
          /\ \E r \in log : r[2] = lo /\ InSpan(r[1], b)
          /\ \E r \in log : r[2] = hi /\ InSpan(r[1], b)
          /\ lo * a.samples <= a.sum /\ a.sum <= hi * a.samples

BucketsAveraged == \A b \in DOMAIN aggs : Averaged(aggs[b], b, recorded)

ChartInv == MetricsTypeOK /\ SamplesRecorded /\ BucketsAveraged

LEMMA ChartInit == MetricsInit => ChartInv
  BY MetricsAssumption
     DEF MetricsInit, ChartInv, MetricsTypeOK, SamplesRecorded, BucketsAveraged, Idle, Time

(* More records do not take an average out of its bounds.                    *)
LEMMA AveragedGrows ==
    ASSUME NEW a, NEW b, NEW log, NEW more, Averaged(a, b, log), log \subseteq more
    PROVE  Averaged(a, b, more)
  BY DEF Averaged

LEMMA ChartInsert ==
    ASSUME ChartInv, NEW s \in Servers, NEW t \in Time, NEW ms \in SUBSET MetricKeys,
           NEW batch \in [ms -> Values], InsertSamples(s, t, batch)
    PROVE  ChartInv'
  <1> DEFINE keys == {KeyOf(s, m, t) : m \in DOMAIN batch}
  <1>1. /\ s \in live /\ budget > 0
        /\ samples' = [k \in DOMAIN samples \cup keys |->
                          IF k \in keys THEN batch[k.metric] ELSE samples[k]]
        /\ recorded' = recorded \cup {<<k, batch[k.metric]>> : k \in keys}
        /\ budget' = budget - 1
        /\ UNCHANGED <<live, aggs, sweep, pruned, horizon>>
    BY DEF InsertSamples
  <1>2. \A k \in keys : /\ k \in [server : live, metric : MetricKeys, ts : Time]
                        /\ k \in Key /\ batch[k.metric] \in Values
    BY <1>1 DEF KeyOf, Key
  <1> HIDE DEF keys
  <1>3. SamplesRecorded'
    BY <1>1 DEF ChartInv, SamplesRecorded
  <1>4. BucketsAveraged'
    <2>1. recorded \subseteq recorded' /\ aggs' = aggs
      BY <1>1
    <2> QED BY <2>1, AveragedGrows DEF ChartInv, BucketsAveraged
  <1>5. MetricsTypeOK'
    <2> USE DEF ChartInv, MetricsTypeOK
    <2>1. DOMAIN samples' \subseteq [server : live', metric : MetricKeys, ts : Time]
      BY <1>1, <1>2
    <2>2. \A k \in DOMAIN samples' : samples'[k] \in Values
      BY <1>1, <1>2
    <2>3. recorded' \subseteq Key \X Values
      BY <1>1, <1>2
    <2>4. budget' \in 0..MaxCalls
      BY <1>1, MetricsAssumption
    <2>5. /\ DOMAIN aggs' \subseteq [server : live', metric : MetricKeys, res : RollupNames, start : Time]
          /\ \A b \in DOMAIN aggs' : aggs'[b] \in Summary
      BY <1>1
    <2> QED BY <1>1, <2>1, <2>2, <2>3, <2>4, <2>5
  <1> QED BY <1>3, <1>4, <1>5 DEF ChartInv

LEMMA ChartRollUp ==
    ASSUME ChartInv, NEW res \in RollupNames, NEW before \in Time, RollUp(res, before)
    PROVE  ChartInv'
  <1> DEFINE keys == Folded(res, before)
             buckets == {BucketOf(res, k) : k \in keys}
             group(c) == {k \in keys : BucketOf(res, k) = c}
  <1>1. /\ aggs' = [b \in DOMAIN aggs \cup buckets |->
                       IF b \in buckets THEN Summarise(group(b)) ELSE aggs[b]]
        /\ budget > 0 /\ budget' = budget - 1 /\ horizon' = before
        /\ UNCHANGED <<live, samples, sweep, recorded, pruned>>
    BY DEF RollUp
  <1>2. ASSUME NEW b \in buckets
        PROVE  /\ b \in [server : live, metric : MetricKeys, res : RollupNames, start : Time]
               /\ Summarise(group(b)) \in Summary
               /\ Averaged(Summarise(group(b)), b, recorded)
    <2>1. PICK g : g = group(b)
      OBVIOUS
    <2>a. g = GroupOf(res, before, b) /\ \E k \in Folded(res, before) : b = BucketOf(res, k)
      BY <2>1 DEF GroupOf
    <2>b. MetricsTypeOK
      BY DEF ChartInv
    <2> HIDE DEF group, buckets
    <2>2. /\ b \in [server : live, metric : MetricKeys, res : {res}, start : Time]
          /\ g # {} /\ IsFiniteSet(g) /\ Cardinality(g) \in 1..BucketMs[res]
          /\ \A k \in g : /\ k \in DOMAIN samples
                          /\ k.server = b.server /\ k.metric = b.metric
                          /\ k.ts \in b.start..(b.start + BucketMs[res] - 1)
      BY <2>a, <2>b, GroupFact
    <2>3. \A k \in g : /\ samples[k] \in Values /\ samples[k] \in Int
                       /\ k.ts \in Time /\ <<k, samples[k]>> \in recorded
      BY <2>2, MetricsAssumption DEF ChartInv, MetricsTypeOK, SamplesRecorded
    <2>4. PICK a : a = Summarise(g)
      OBVIOUS
    <2>5. /\ a = [sum |-> a.sum, min |-> a.min, max |-> a.max, p95 |-> a.p95,
                  samples |-> a.samples, of |-> a.of]
          /\ a.sum \in Int /\ a.samples = Cardinality(g)
          /\ a.min \in {samples[k] : k \in g} /\ a.max \in {samples[k] : k \in g}
          /\ a.p95 \in {samples[k] : k \in g}
          /\ a.min * a.samples <= a.sum /\ a.sum <= a.max * a.samples
      BY <2>2, <2>3, <2>4, SummaryFact
    <2>6. a.of = {k.ts : k \in g}
      BY <2>4, SummariseOf
    <2>7. a.min \in Int /\ a.max \in Int /\ a.p95 \in Int /\ a.of \in SUBSET Time
      BY <2>3, <2>5, <2>6
    <2>8. a \in Summary
      BY <2>2, <2>5, <2>7 DEF Summary
    <2>9. b.res = res
      BY <2>2
    <2>10. \A k \in g : InSpan(k, b) /\ <<k, samples[k]>> \in recorded
      BY <2>2, <2>3, <2>9 DEF InSpan
    <2>11. \A v \in {samples[k] : k \in g} : \E r \in recorded : r[2] = v /\ InSpan(r[1], b)
      BY <2>10
    <2>12. Averaged(a, b, recorded)
      BY <2>2, <2>5, <2>7, <2>9, <2>11 DEF Averaged
    <2> QED BY <2>1, <2>2, <2>4, <2>8, <2>12
  <1> HIDE DEF buckets, group
  <1>3. ASSUME NEW b \in DOMAIN aggs'
        PROVE  /\ b \in [server : live, metric : MetricKeys, res : RollupNames, start : Time]
               /\ aggs'[b] \in Summary /\ Averaged(aggs'[b], b, recorded)
    <2>1. CASE b \in buckets
      BY <1>1, <1>2, <2>1
    <2>2. CASE b \notin buckets
      <3>1. b \in DOMAIN aggs /\ aggs'[b] = aggs[b]
        BY <1>1, <2>2
      <3> QED BY <3>1 DEF ChartInv, MetricsTypeOK, BucketsAveraged
    <2> QED BY <2>1, <2>2
  <1>4. SamplesRecorded' /\ BucketsAveraged'
    BY <1>1, <1>3 DEF ChartInv, SamplesRecorded, BucketsAveraged
  <1>5. MetricsTypeOK'
    <2>1. budget' \in 0..MaxCalls
      BY <1>1, MetricsAssumption DEF ChartInv, MetricsTypeOK
    <2> QED BY <1>1, <1>3, <2>1 DEF ChartInv, MetricsTypeOK
  <1> QED BY <1>4, <1>5 DEF ChartInv

(* Retention and deletion take rows away and change none.                    *)
LEMMA ChartShrink ==
    ASSUME ChartInv, NEW keep \in SUBSET live,
           live' = keep /\ recorded' = recorded /\ horizon' = horizon,
           DOMAIN samples' \subseteq {k \in DOMAIN samples : k.server \in keep},
           \A k \in DOMAIN samples' : samples'[k] = samples[k],
           DOMAIN aggs' \subseteq {b \in DOMAIN aggs : b.server \in keep},
           \A b \in DOMAIN aggs' : aggs'[b] = aggs[b],
           sweep' \in [step : 0..Len(Rollups), now : Time],
           budget' \in 0..MaxCalls, pruned' \subseteq Key
    PROVE  ChartInv'
  <1>1. MetricsTypeOK'
    <2>1. DOMAIN samples' \subseteq [server : live', metric : MetricKeys, ts : Time]
      BY DEF ChartInv, MetricsTypeOK
    <2>2. DOMAIN aggs' \subseteq [server : live', metric : MetricKeys, res : RollupNames, start : Time]
      BY DEF ChartInv, MetricsTypeOK
    <2> QED BY <2>1, <2>2 DEF ChartInv, MetricsTypeOK
  <1>2. SamplesRecorded'
    BY DEF ChartInv, SamplesRecorded
  <1>3. BucketsAveraged'
    BY DEF ChartInv, BucketsAveraged
  <1> QED BY <1>1, <1>2, <1>3 DEF ChartInv

LEMMA ChartStepInv == ChartInv /\ [StoreStep]_metricVars => ChartInv'
  <1> SUFFICES ASSUME ChartInv, [StoreStep]_metricVars PROVE ChartInv'
    OBVIOUS
  <1>0. /\ live \subseteq Servers /\ sweep \in [step : 0..Len(Rollups), now : Time]
        /\ budget \in 0..MaxCalls /\ pruned \subseteq Key
        /\ \A k \in DOMAIN samples : k \in Key /\ k.server \in live
        /\ \A b \in DOMAIN aggs : b.server \in live
    BY DEF ChartInv, MetricsTypeOK, Key
  <1>a. MaxCalls \in Nat /\ Len(Rollups) \in Nat /\ 0 \in Time /\ Rollups # <<>>
    BY MetricsAssumption DEF Time
  <1>b. Idle \in [step : 0..Len(Rollups), now : Time]
    BY <1>a DEF Idle
  <1>1. ASSUME NEW s \in Servers, NEW t \in Time, NEW ms \in SUBSET MetricKeys,
               NEW batch \in [ms -> Values], InsertSamples(s, t, batch)
        PROVE  ChartInv'
    BY <1>1, ChartInsert
  <1>2. ASSUME NEW res \in RollupNames, NEW before \in Time, RollUp(res, before)
        PROVE  ChartInv'
    BY <1>2, ChartRollUp
  <1>3. ASSUME NEW now \in Time, PruneRaw(now)
        PROVE  ChartInv'
    <2>1. /\ live' = live /\ recorded' = recorded /\ horizon' = horizon /\ aggs' = aggs
          /\ DOMAIN samples' \subseteq DOMAIN samples
          /\ \A k \in DOMAIN samples' : samples'[k] = samples[k]
          /\ pruned' \subseteq pruned \cup DOMAIN samples
          /\ sweep' = [step |-> 1, now |-> now]
          /\ budget > 0 /\ budget' = budget - 1
      BY <1>3 DEF PruneRaw
    <2>2. sweep' \in [step : 0..Len(Rollups), now : Time] /\ budget' \in 0..MaxCalls
      <3>1. Len(Rollups) >= 1
        BY MetricsAssumption
      <3> QED BY <1>0, <1>a, <2>1, <3>1
    <2>3. pruned' \subseteq Key
      BY <1>0, <2>1
    <2>4. live \in SUBSET live
      OBVIOUS
    <2> QED BY <1>0, <2>1, <2>2, <2>3, <2>4, ChartShrink
  <1>4. CASE PruneRollup \/ PruneStops
    <2>1. /\ live' = live /\ recorded' = recorded /\ horizon' = horizon /\ samples' = samples
          /\ DOMAIN aggs' \subseteq DOMAIN aggs
          /\ \A b \in DOMAIN aggs' : aggs'[b] = aggs[b]
          /\ pruned' = pruned /\ budget' = budget
          /\ \/ sweep' = Idle
             \/ sweep.step # Len(Rollups) /\ sweep' = [sweep EXCEPT !.step = @ + 1]
      BY <1>4 DEF PruneRollup, PruneStops
    <2>2. sweep' \in [step : 0..Len(Rollups), now : Time]
      BY <1>0, <1>a, <1>b, <2>1
    <2>4. live \in SUBSET live
      OBVIOUS
    <2> QED BY <1>0, <2>1, <2>2, <2>4, ChartShrink
  <1>5. ASSUME NEW s \in Servers, ForgetServer(s)
        PROVE  ChartInv'
    <2>1. /\ live' = live \ {s} /\ recorded' = recorded /\ horizon' = horizon
          /\ DOMAIN samples' \subseteq {x \in DOMAIN samples : x.server # s}
          /\ \A k \in DOMAIN samples' : samples'[k] = samples[k]
          /\ DOMAIN aggs' \subseteq {x \in DOMAIN aggs : x.server # s}
          /\ \A b \in DOMAIN aggs' : aggs'[b] = aggs[b]
          /\ pruned' = pruned /\ budget' = budget /\ sweep' = sweep
      BY <1>5 DEF ForgetServer
    <2>2. live \ {s} \in SUBSET live
      OBVIOUS
    <2>3. /\ DOMAIN samples' \subseteq {k \in DOMAIN samples : k.server \in live \ {s}}
          /\ DOMAIN aggs' \subseteq {b \in DOMAIN aggs : b.server \in live \ {s}}
      BY <1>0, <2>1
    <2> QED BY <1>0, <2>1, <2>2, <2>3, ChartShrink
  <1>6. CASE UNCHANGED metricVars
    BY <1>6 DEF metricVars, storeVars, ChartInv, MetricsTypeOK, SamplesRecorded, BucketsAveraged
  <1> QED BY <1>1, <1>2, <1>3, <1>4, <1>5, <1>6 DEF StoreStep

LEMMA ChartInvariant == StoreSpec => []ChartInv
  BY ChartInit, ChartStepInv, PTL DEF StoreSpec

(* The metric tables keep their types and, across every delete, the           *)
(* constraint that no sample or rollup outlives its server's row.             *)
THEOREM StoreTypeCorrect == StoreSpec => []MetricsTypeOK
  <1>1. ChartInv => MetricsTypeOK
    BY DEF ChartInv
  <1> QED BY <1>1, ChartInvariant, PTL

LEMMA ChartsObserved == ChartInv => ChartPointsAreObserved
  <1> SUFFICES ASSUME ChartInv, NEW s \in Servers, NEW m \in MetricKeys,
                      NEW from \in Time, NEW to \in Time, NEW p \in Series(s, m, from, to),
                      NEW res, res = ForWindow(to - from),
                      NEW width, width = IF res = "raw" THEN 1 ELSE BucketMs[res]
               PROVE  /\ p.ts \in from..to
                      /\ p.n \in 1..width
                      /\ \E lo, hi \in ObservedIn(s, m, p.ts, p.ts + width - 1) :
                            lo * p.n <= p.sum /\ p.sum <= hi * p.n
    BY DEF ChartPointsAreObserved
  <1>1. CASE res = "raw"
    <2>1. PICK k \in DOMAIN samples :
             /\ p = [ts |-> k.ts, sum |-> samples[k], n |-> 1]
             /\ k.server = s /\ k.metric = m /\ k.ts \in from..to
      BY <1>1 DEF Series
    <2>2. k.ts \in Int /\ samples[k] \in Int /\ <<k, samples[k]>> \in recorded
      <3>1. samples[k] \in Values /\ k \in [server : live, metric : MetricKeys, ts : Time]
        BY DEF ChartInv, MetricsTypeOK
      <3>2. k.ts \in Int
        BY <3>1 DEF Time
      <3> QED BY <3>1, <3>2, MetricsAssumption DEF ChartInv, SamplesRecorded
    <2>3. samples[k] \in ObservedIn(s, m, p.ts, p.ts + width - 1)
      <3>1. <<k, samples[k]>>[1] = k /\ <<k, samples[k]>>[2] = samples[k]
        OBVIOUS
      <3>2. k.ts \in p.ts..(p.ts + width - 1)
        BY <1>1, <2>1, <2>2
      <3> QED BY <2>1, <2>2, <3>1, <3>2 DEF ObservedIn
    <2>4. samples[k] * 1 = samples[k]
      BY <2>2
    <2> QED BY <1>1, <2>1, <2>2, <2>3, <2>4
  <1>2. CASE res # "raw"
    <2>1. PICK b \in DOMAIN aggs :
             /\ p = [ts |-> b.start, sum |-> aggs[b].sum, n |-> aggs[b].samples]
             /\ b.server = s /\ b.metric = m /\ b.res = res /\ b.start \in from..to
      BY <1>2 DEF Series
    <2>2. Averaged(aggs[b], b, recorded)
      BY DEF ChartInv, BucketsAveraged
    <2>3. width = BucketMs[b.res]
      BY <1>2, <2>1
    <2>4. \A r \in recorded : InSpan(r[1], b) => r[2] \in ObservedIn(s, m, p.ts, p.ts + width - 1)
      BY <2>1, <2>3 DEF InSpan, ObservedIn
    <2> QED BY <2>1, <2>2, <2>3, <2>4 DEF Averaged
  <1> QED BY <1>1, <1>2

(* ChartPointsAreObserved for any frames, widths, retentions and windows: a   *)
(* raw point is a recorded sample, and a rollup point is an average between   *)
(* two samples recorded in its bucket (metrics.rs series over roll_up).       *)
THEOREM ChartsShowWhatWasObserved == StoreSpec => []ChartPointsAreObserved
  BY ChartInvariant, ChartsObserved, PTL

-----------------------------------------------------------------------------
(* The approval gate and the token authority.                                *)

(* What has a verdict or was left out of a listing is no longer pending, and *)
(* what a listing showed, if still pending, is in time as long as the clock  *)
(* has not moved.                                                            *)
GateInv ==
    \A r \in Requests :
        /\ verdicts[r] # <<>> => r \in drawn /\ r \notin DOMAIN pending
        /\ r \in unlisted => r \notin DOMAIN pending
        /\ r \in listed /\ r \in DOMAIN pending => InTime(pending[r])

(* A token that was accepted or refused is out of the map for good.          *)
TokenInv ==
    \A t \in Tokens : accepted[t] # 0 \/ t \in refused =>
        t \in drawn /\ t \notin DOMAIN issuedTokens

ApprovalsInv == ApprovalsTypeOK /\ GateInv /\ TokenInv

ApprovalsStep == GateNext \/ TokenNext

-----------------------------------------------------------------------------
(* Every operation has a tier (assess_operation_risk).                       *)
LEMMA RiskIsATier ==
    ASSUME NEW tool, NEW env
    PROVE  AssessOperationRisk(tool, env) \in RiskTier
  BY DEF AssessOperationRisk, RiskTier, Safe, Low, Medium, High, Critical

-----------------------------------------------------------------------------
LEMMA ApprovalsInitInv == ApprovalsInit => ApprovalsInv
  BY ApprovalsAssumption
     DEF ApprovalsInit, ApprovalsInv, ApprovalsTypeOK, GateInv, TokenInv, Clock

(* Moving the clock empties `listed` and touches neither map.                *)
LEMMA SetClockInv == ApprovalsInv /\ SetClock => ApprovalsInv'
  BY DEF SetClock, ApprovalsInv, ApprovalsTypeOK, GateInv, TokenInv, tokenVars

(* A new request has an id nobody has seen.                                  *)
LEMMA CreateRequestInv ==
    ASSUME ApprovalsInv,
           NEW r \in Requests, NEW s \in Targets, NEW tool \in Tools,
           NEW env \in TargetEnv, CreateRequest(r, s, tool, env)
    PROVE  ApprovalsInv'
  <1> DEFINE tier == AssessOperationRisk(tool, env)
             req == [server |-> s, tool |-> tool, tier |-> tier,
                     second |-> tier = Critical,
                     backup |-> tier = Critical \/ tool \in {"kyvon_drop_database", "kyvon_deploy"},
                     created |-> wall]
  <1>1. req \in Request
    BY RiskIsATier DEF ApprovalsInv, ApprovalsTypeOK, Request
  <1>2. /\ r \notin drawn /\ drawn' = drawn \cup {r}
        /\ pending' = With(pending, r, req)
        /\ UNCHANGED <<wall, verdicts, listed, unlisted, issuedTokens, accepted, refused>>
    BY DEF CreateRequest, tokenVars
  <1> HIDE DEF req, tier
  <1>3. /\ DOMAIN pending' = DOMAIN pending \cup {r}
        /\ pending'[r] = req
        /\ \A x \in DOMAIN pending : x # r => pending'[x] = pending[x]
    BY <1>2 DEF With
  <1>4. ApprovalsTypeOK'
    BY <1>1, <1>2, <1>3 DEF ApprovalsInv, ApprovalsTypeOK
  <1>5. GateInv'
    BY <1>2, <1>3 DEF ApprovalsInv, ApprovalsTypeOK, GateInv, InTime
  <1>6. TokenInv'
    BY <1>2 DEF ApprovalsInv, TokenInv
  <1> QED BY <1>4, <1>5, <1>6 DEF ApprovalsInv

(* A resolved request leaves the map with its only verdict.                  *)
LEMMA ResolveRequestInv ==
    ASSUME ApprovalsInv,
           NEW r \in Requests, NEW approve \in BOOLEAN, ResolveRequest(r, approve)
    PROVE  ApprovalsInv'
  <1> DEFINE status == Status(pending[r], approve)
  <1>1. status \in ApprovalStatus
    BY DEF Status, ApprovalStatus
  <1>2. /\ r \in DOMAIN pending
        /\ pending' = Without(pending, r)
        /\ verdicts' = [verdicts EXCEPT ![r] = Append(@, status)]
        /\ UNCHANGED <<wall, drawn, listed, unlisted, issuedTokens, accepted, refused>>
    BY DEF ResolveRequest, tokenVars
  <1> HIDE DEF status
  <1>3. /\ DOMAIN pending' = DOMAIN pending \ {r}
        /\ \A x \in DOMAIN pending \ {r} : pending'[x] = pending[x]
    BY <1>2 DEF Without
  <1>4. ApprovalsTypeOK'
    BY <1>1, <1>2, <1>3 DEF ApprovalsInv, ApprovalsTypeOK
  <1>5. GateInv'
    BY <1>2, <1>3 DEF ApprovalsInv, ApprovalsTypeOK, GateInv, InTime
  <1>6. TokenInv'
    BY <1>2 DEF ApprovalsInv, TokenInv
  <1> QED BY <1>4, <1>5, <1>6 DEF ApprovalsInv

(* A listing removes exactly what it does not list.                          *)
LEMMA GetPendingInv == ApprovalsInv /\ GetPending => ApprovalsInv'
  <1> SUFFICES ASSUME ApprovalsInv, GetPending PROVE ApprovalsInv'
    OBVIOUS
  <1>1. /\ DOMAIN pending' = Retained
        /\ \A x \in Retained : pending'[x] = pending[x]
        /\ listed' = Retained
        /\ unlisted' = unlisted \cup ((drawn \cap Requests) \ Retained)
        /\ UNCHANGED <<wall, drawn, verdicts, issuedTokens, accepted, refused>>
    BY DEF GetPending, tokenVars
  <1>2. /\ Retained \subseteq DOMAIN pending
        /\ \A x \in Retained : InTime(pending[x])
    BY DEF Retained
  <1>3. ApprovalsTypeOK'
    BY <1>1, <1>2 DEF ApprovalsInv, ApprovalsTypeOK
  <1>4. GateInv'
    BY <1>1, <1>2 DEF ApprovalsInv, ApprovalsTypeOK, GateInv, InTime
  <1>5. TokenInv'
    BY <1>1 DEF ApprovalsInv, TokenInv
  <1> QED BY <1>3, <1>4, <1>5 DEF ApprovalsInv

(* A new token has an id nobody has seen.                                    *)
LEMMA IssueTokenInv ==
    ASSUME ApprovalsInv,
           NEW t \in Tokens, NEW s \in Targets, NEW scope \in Scopes \cup {"*"},
           IssueToken(t, s, scope)
    PROVE  ApprovalsInv'
  <1> DEFINE expires == wall + (IF TokenTtl > 0 THEN TokenTtl ELSE 0)
             tok == [server |-> s, scope |-> scope, expires |-> expires]
  <1>1. expires \in Nat
    BY ApprovalsAssumption DEF ApprovalsInv, ApprovalsTypeOK, Clock
  <1>2. tok \in EphemeralToken
    BY <1>1 DEF EphemeralToken
  <1>3. /\ t \notin drawn /\ drawn' = drawn \cup {t}
        /\ issuedTokens' = With(issuedTokens, t, tok)
        /\ UNCHANGED <<wall, pending, verdicts, listed, unlisted, accepted, refused>>
    BY DEF IssueToken, gateVars
  <1> HIDE DEF tok, expires
  <1>4. /\ DOMAIN issuedTokens' = DOMAIN issuedTokens \cup {t}
        /\ issuedTokens'[t] = tok
        /\ \A x \in DOMAIN issuedTokens : x # t => issuedTokens'[x] = issuedTokens[x]
    BY <1>3 DEF With
  <1>5. ApprovalsTypeOK'
    BY <1>2, <1>3, <1>4 DEF ApprovalsInv, ApprovalsTypeOK
  <1>6. GateInv'
    BY <1>3 DEF ApprovalsInv, GateInv, InTime
  <1>7. TokenInv'
    BY <1>3, <1>4 DEF ApprovalsInv, TokenInv
  <1> QED BY <1>5, <1>6, <1>7 DEF ApprovalsInv

(* What is presented leaves the map, whatever the answer.                    *)
LEMMA VerifyInv ==
    ASSUME ApprovalsInv,
           NEW t \in drawn \cap Tokens, NEW s \in Targets, NEW scope \in Scopes,
           VerifyAndConsume(t, s, scope)
    PROVE  ApprovalsInv'
  <1> DEFINE ok == t \in Unexpired /\ Matches(issuedTokens[t], s, scope)
  <1>1. /\ DOMAIN issuedTokens' = Unexpired \ {t}
        /\ \A x \in Unexpired \ {t} : issuedTokens'[x] = issuedTokens[x]
        /\ accepted' = IF ok THEN [accepted EXCEPT ![t] = @ + 1] ELSE accepted
        /\ refused' = IF ok THEN refused ELSE refused \cup {t}
        /\ UNCHANGED <<wall, drawn, pending, verdicts, listed, unlisted>>
    BY DEF VerifyAndConsume, gateVars
  <1>2. Unexpired \subseteq DOMAIN issuedTokens
    BY DEF Unexpired
  <1> HIDE DEF ok
  <1>3. ApprovalsTypeOK'
    <2>1. accepted' \in [Tokens -> Nat]
      BY <1>1 DEF ApprovalsInv, ApprovalsTypeOK
    <2>2. refused' \subseteq drawn' \cap Tokens
      BY <1>1 DEF ApprovalsInv, ApprovalsTypeOK
    <2> QED BY <1>1, <1>2, <2>1, <2>2 DEF ApprovalsInv, ApprovalsTypeOK
  <1>4. GateInv'
    BY <1>1 DEF ApprovalsInv, GateInv, InTime
  <1>5. TokenInv'
    BY <1>1, <1>2 DEF ApprovalsInv, ApprovalsTypeOK, TokenInv
  <1> QED BY <1>3, <1>4, <1>5 DEF ApprovalsInv

LEMMA VerifyUnknownInv == ApprovalsInv /\ VerifyUnknown => ApprovalsInv'
  <1> SUFFICES ASSUME ApprovalsInv, VerifyUnknown PROVE ApprovalsInv'
    OBVIOUS
  <1>1. /\ DOMAIN issuedTokens' = Unexpired
        /\ \A x \in Unexpired : issuedTokens'[x] = issuedTokens[x]
        /\ UNCHANGED <<wall, drawn, pending, verdicts, listed, unlisted, accepted, refused>>
    BY DEF VerifyUnknown, gateVars
  <1>2. Unexpired \subseteq DOMAIN issuedTokens
    BY DEF Unexpired
  <1>3. ApprovalsTypeOK'
    BY <1>1, <1>2 DEF ApprovalsInv, ApprovalsTypeOK
  <1>4. GateInv'
    BY <1>1 DEF ApprovalsInv, GateInv, InTime
  <1>5. TokenInv'
    BY <1>1, <1>2 DEF ApprovalsInv, TokenInv
  <1> QED BY <1>3, <1>4, <1>5 DEF ApprovalsInv

LEMMA ApprovalsStepInv == ApprovalsInv /\ [ApprovalsStep]_approvalVars => ApprovalsInv'
  <1> SUFFICES ASSUME ApprovalsInv, [ApprovalsStep]_approvalVars PROVE ApprovalsInv'
    OBVIOUS
  <1>1. CASE SetClock
    BY <1>1, SetClockInv
  <1>2. CASE \E r \in Requests, s \in Targets, tool \in Tools, env \in TargetEnv :
                CreateRequest(r, s, tool, env)
    BY <1>2, CreateRequestInv
  <1>3. CASE \E r \in Requests, approve \in BOOLEAN : ResolveRequest(r, approve)
    BY <1>3, ResolveRequestInv
  <1>4. CASE GetPending
    BY <1>4, GetPendingInv
  <1>5. CASE \E t \in Tokens, s \in Targets, scope \in Scopes \cup {"*"} : IssueToken(t, s, scope)
    BY <1>5, IssueTokenInv
  <1>6. CASE \E t \in drawn \cap Tokens, s \in Targets, scope \in Scopes :
                VerifyAndConsume(t, s, scope)
    BY <1>6, VerifyInv
  <1>7. CASE VerifyUnknown
    BY <1>7, VerifyUnknownInv
  <1>8. CASE UNCHANGED approvalVars
    BY <1>8 DEF ApprovalsInv, ApprovalsTypeOK, GateInv, TokenInv, InTime,
                approvalVars, gateVars, tokenVars
  <1> QED BY <1>1, <1>2, <1>3, <1>4, <1>5, <1>6, <1>7, <1>8
          DEF ApprovalsStep, GateNext, TokenNext

(* The inductive invariant of the gate and the authority.                    *)
THEOREM ApprovalsInvariant == ApprovalsSpec => []ApprovalsInv
  <1>1. ApprovalsInit => ApprovalsInv
    BY ApprovalsInitInv
  <1>2. ApprovalsInv /\ [GateNext \/ TokenNext]_approvalVars => ApprovalsInv'
    BY ApprovalsStepInv DEF ApprovalsStep
  <1> QED BY <1>1, <1>2, PTL DEF ApprovalsSpec

(* Types: requests and tokens are well formed and were handed out.           *)
THEOREM ApprovalsTypeCorrect == ApprovalsSpec => []ApprovalsTypeOK
  <1>1. ApprovalsInv => ApprovalsTypeOK
    BY DEF ApprovalsInv
  <1> QED BY <1>1, ApprovalsInvariant, PTL

-----------------------------------------------------------------------------
(* Only resolve_request gives a verdict.                                     *)
LEMMA OnlyResolveJudges ==
    ASSUME ApprovalsInv, [ApprovalsStep]_approvalVars, verdicts' # verdicts
    PROVE  \E r \in Requests, approve \in BOOLEAN : ResolveRequest(r, approve)
  BY DEF ApprovalsStep, GateNext, TokenNext, SetClock, CreateRequest, GetPending,
         IssueToken, VerifyAndConsume, VerifyUnknown, approvalVars, gateVars, tokenVars

(* One verdict per request; nothing a listing left out is approved later,    *)
(* nothing it showed is expired in the same instant (approvals.rs).          *)
THEOREM ListingsBind == ApprovalsSpec => ListingsAreBinding
  <1> DEFINE Judged ==
        \A r \in Requests : verdicts'[r] # verdicts[r] =>
          /\ verdicts[r] = <<>>
          /\ r \in unlisted => verdicts'[r] # <<"approved">>
          /\ r \in listed => verdicts'[r] # <<"expired">>
  <1>1. ApprovalsInv /\ [ApprovalsStep]_approvalVars => [Judged]_approvalVars
    <2> SUFFICES ASSUME ApprovalsInv, [ApprovalsStep]_approvalVars,
                        NEW r \in Requests, verdicts'[r] # verdicts[r]
                 PROVE  /\ verdicts[r] = <<>>
                        /\ r \in unlisted => verdicts'[r] # <<"approved">>
                        /\ r \in listed => verdicts'[r] # <<"expired">>
      OBVIOUS
    <2>1. PICK q \in Requests, approve \in BOOLEAN : ResolveRequest(q, approve)
      BY OnlyResolveJudges
    <2>2. /\ verdicts \in [Requests -> Seq(ApprovalStatus)]
          /\ q \in DOMAIN pending
          /\ verdicts' = [verdicts EXCEPT ![q] = Append(@, Status(pending[q], approve))]
      BY <2>1 DEF ResolveRequest, ApprovalsInv, ApprovalsTypeOK
    <2>3. r = q
      BY <2>2
    <2>4. verdicts[r] = <<>> /\ r \notin unlisted
      BY <2>2, <2>3 DEF ApprovalsInv, GateInv
    <2>5. verdicts'[r] = <<Status(pending[r], approve)>>
      BY <2>2, <2>3, <2>4
    <2>6. r \in listed => Status(pending[r], approve) # "expired"
      BY <2>2, <2>3 DEF ApprovalsInv, GateInv, Status
    <2> QED BY <2>4, <2>5, <2>6
  <1>2. ApprovalsSpec => [][ApprovalsStep]_approvalVars
    BY PTL DEF ApprovalsSpec, ApprovalsStep
  <1>3. [][Judged]_approvalVars => ListingsAreBinding
    BY PTL DEF ListingsAreBinding
  <1> QED BY <1>1, <1>2, <1>3, ApprovalsInvariant, PTL

(* Only verify_and_consume accepts a token.                                  *)
LEMMA OnlyVerifyAccepts ==
    ASSUME ApprovalsInv, [ApprovalsStep]_approvalVars, accepted' # accepted
    PROVE  \E t \in drawn \cap Tokens, s \in Targets, scope \in Scopes :
              VerifyAndConsume(t, s, scope)
  BY DEF ApprovalsStep, GateNext, TokenNext, SetClock, CreateRequest, ResolveRequest,
         GetPending, IssueToken, VerifyUnknown, approvalVars, gateVars, tokenVars

(* A token is accepted once at most, and never after a refusal, wherever the *)
(* clock is set (tokens.rs verify_and_consume).                              *)
THEOREM RefusalsAreFinal == ApprovalsSpec => RefusalIsFinal
  <1> DEFINE Fresh ==
        \A t \in Tokens : accepted'[t] # accepted[t] => accepted[t] = 0 /\ t \notin refused
  <1>1. ApprovalsInv /\ [ApprovalsStep]_approvalVars => [Fresh]_approvalVars
    <2> SUFFICES ASSUME ApprovalsInv, [ApprovalsStep]_approvalVars,
                        NEW t \in Tokens, accepted'[t] # accepted[t]
                 PROVE  accepted[t] = 0 /\ t \notin refused
      OBVIOUS
    <2>1. PICK u \in drawn \cap Tokens, s \in Targets, scope \in Scopes :
              VerifyAndConsume(u, s, scope)
      BY OnlyVerifyAccepts
    <2>2. /\ accepted \in [Tokens -> Nat]
          /\ u \in Unexpired
          /\ accepted' = [accepted EXCEPT ![u] = @ + 1]
      BY <2>1 DEF VerifyAndConsume, ApprovalsInv, ApprovalsTypeOK
    <2>3. t = u
      BY <2>2
    <2> QED BY <2>2, <2>3 DEF ApprovalsInv, TokenInv, Unexpired
  <1>2. ApprovalsSpec => [][ApprovalsStep]_approvalVars
    BY PTL DEF ApprovalsSpec, ApprovalsStep
  <1>3. [][Fresh]_approvalVars => RefusalIsFinal
    BY PTL DEF RefusalIsFinal
  <1> QED BY <1>1, <1>2, <1>3, ApprovalsInvariant, PTL

-----------------------------------------------------------------------------
(* The gateway.                                                              *)

GatewayNext == ProtocolNext \/ HealthNext

storeAndGateway == <<metricVars, approvalVars, gatewayVars>>

(* What was recorded of a server that has a row is stored, unless retention  *)
(* removed it.                                                               *)
RecordedKept ==
    \A x \in recorded : x[1].server \in live => x[1] \in DOMAIN samples \cup pruned

(* The newest readings of a set of samples, one per metric.                  *)
NewestOf(keys) == {k \in keys : \A l \in keys : l.metric = k.metric => l.ts <= k.ts}

(* What a health call holds between its read and its answer.                 *)
CallHolds ==
    inflight # NoCall =>
        /\ IsHealthCall(exchange.msg)
        /\ exchange.reply = Silent
        /\ inflight.stored \subseteq Key
        /\ inflight.found = NewestOf(inflight.stored)
        /\ inflight.known => inflight.ever \subseteq inflight.stored

GatewayInv ==
    /\ StoreInv /\ RecordedKept
    /\ wall \in Clock
    /\ DOMAIN exchange = {"msg", "reply"}
    /\ CallHolds
    /\ RepliesAreEarned

(* A step of the gateway and the desktop leaves the role and the backend as  *)
(* they are, and touches the store by one statement or not at all.           *)
GatewayStep ==
    /\ UNCHANGED <<role, attached>>
    /\ [StoreStep]_metricVars
    /\ UNCHANGED wall \/ (wall' \in Clock /\ UNCHANGED <<metricVars, gatewayVars>>)
    /\ \/ UNCHANGED gatewayVars
       \/ /\ UNCHANGED <<metricVars, wall>>
          /\ \/ \E m \in Messages, fails \in BOOLEAN : Handle(m, fails)
             \/ \E m \in Messages : ReadHealth(m)
             \/ AnswerHealth

(* Every behaviour of the gateway beside a store and a clock that do as they *)
(* like; the runs explore it in parts, which BackendProofs shows.            *)
GatewaySpec ==
    /\ MetricsInit /\ ApprovalsInit /\ GatewayInit
    /\ [][GatewayStep]_storeAndGateway

LEMMA GatewayStepCases ==
    ASSUME [GatewayNext]_storeAndGateway
    PROVE  GatewayStep
  <1> USE DEF GatewayStep
  <1>1. CASE UNCHANGED storeAndGateway
    BY <1>1 DEF storeAndGateway, gatewayVars, approvalVars
  <1>2. CASE ProtocolNext
    BY <1>2 DEF ProtocolNext, StoreStep, ForgetServer, Handle, gatewayVars, approvalVars
  <1>3. CASE HealthNext
    <2>1. CASE /\ (\E m \in Messages : ReadHealth(m)) \/ AnswerHealth
               /\ UNCHANGED <<metricVars, approvalVars>>
      BY <2>1 DEF ReadHealth, AnswerHealth, approvalVars
    <2>2. CASE SetClock /\ UNCHANGED <<metricVars, gatewayVars>>
      BY <2>2 DEF SetClock, gatewayVars
    <2>3. CASE /\ \/ \E s \in Servers, t \in Time, ms \in (SUBSET MetricKeys) \ {{}} :
                        InsertSamples(s, t, [m \in ms |-> AnyValue])
                  \/ \E now \in Time : PruneRaw(now)
                  \/ PruneStops
                  \/ \E s \in Servers : ForgetServer(s)
               /\ UNCHANGED <<approvalVars, gatewayVars>>
      <3>1. AnyValue \in Values
        BY MetricsAssumption DEF AnyValue
      <3>2. ASSUME NEW s \in Servers, NEW t \in Time, NEW ms \in SUBSET MetricKeys,
                   InsertSamples(s, t, [m \in ms |-> AnyValue])
            PROVE  StoreStep
        <4>1. [m \in ms |-> AnyValue] \in [ms -> Values]
          BY <3>1
        <4> QED BY <3>2, <4>1 DEF StoreStep
      <3>3. StoreStep
        BY <2>3, <3>2 DEF StoreStep
      <3> QED BY <2>3, <3>3 DEF approvalVars, gatewayVars
    <2> QED BY <1>3, <2>1, <2>2, <2>3 DEF HealthNext
  <1> QED BY <1>1, <1>2, <1>3 DEF GatewayNext

(* Only retention and the deletion of the server take a sample away.         *)
LEMMA RecordedStep ==
    ASSUME RecordedKept, [StoreStep]_metricVars
    PROVE  RecordedKept'
  <1> USE DEF RecordedKept
  <1>1. ASSUME NEW s \in Servers, NEW t \in Time, NEW batch, InsertSamples(s, t, batch)
        PROVE  RecordedKept'
    <2> DEFINE keys == {KeyOf(s, m, t) : m \in DOMAIN batch}
    <2>1. /\ DOMAIN samples' = DOMAIN samples \cup keys
          /\ recorded' = recorded \cup {<<k, batch[k.metric]>> : k \in keys}
          /\ UNCHANGED <<live, pruned>>
      BY <1>1 DEF InsertSamples
    <2> HIDE DEF keys
    <2> QED BY <2>1
  <1>2. ASSUME NEW res \in RollupNames, NEW before \in Time, RollUp(res, before)
        PROVE  RecordedKept'
    BY <1>2 DEF RollUp
  <1>3. ASSUME NEW now \in Time, PruneRaw(now)
        PROVE  RecordedKept'
    BY <1>3 DEF PruneRaw
  <1>4. CASE PruneRollup \/ PruneStops
    BY <1>4 DEF PruneRollup, PruneStops
  <1>5. ASSUME NEW s \in Servers, ForgetServer(s)
        PROVE  RecordedKept'
    BY <1>5 DEF ForgetServer
  <1>6. CASE UNCHANGED metricVars
    BY <1>6 DEF metricVars, storeVars
  <1> HIDE DEF RecordedKept
  <1> QED BY <1>1, <1>2, <1>3, <1>4, <1>5, <1>6 DEF StoreStep

(* A read-only tool is not a write tool.                                     *)
LEMMA CatalogueSplit == ReadOnlyTools \cap WriteTools = {}
  BY DEF ReadOnlyTools, WriteTools

(* The refusals all say something.                                           *)
LEMMA RefusalsSpeak ==
    NoText \notin {"unknown_tool", "arguments", "permission", "scope", "no_bridge", "no_backend"}
  BY Zenon DEF NoText

(* What Refusal says of a call that gets past it, and of one refused for     *)
(* want of permission.                                                       *)
LEMMA RefusalFact ==
    ASSUME NEW m
    PROVE  /\ Refusal(m) = NoText =>
                 /\ attached /\ m.tool \in Listed(role) \ WriteTools
                 /\ ValidArguments(m.tool, m.args)
           /\ Refusal(m) = "permission" => m.tool \notin Listed(role)
           /\ Refusal(m) \in {NoText, "unknown_tool", "arguments", "permission", "scope",
                              "no_bridge", "no_backend"}
  <1>1. Refusal(m) = NoText =>
           /\ attached /\ m.tool \in ReadOnlyTools \ WriteTools
           /\ ValidArguments(m.tool, m.args)
    BY RefusalsSpeak DEF Refusal
  <1>2. Refusal(m) = "permission" => m.tool \in WriteTools /\ ~CanWrite(role)
    BY RefusalsSpeak DEF Refusal
  <1>3. Refusal(m) \in {NoText, "unknown_tool", "arguments", "permission", "scope",
                        "no_bridge", "no_backend"}
    BY RefusalsSpeak DEF Refusal
  <1> QED BY <1>1, <1>2, <1>3, CatalogueSplit DEF Listed

(* The four ways a tool call is answered.                                    *)
LEMMA ToolAnswerFact ==
    ASSUME NEW m, NEW fails \in BOOLEAN
    PROVE  LET r == ToolAnswer(m, fails)
           IN \/ Refusal(m) # NoText /\ r = ToolError(Refusal(m))
              \/ r \in {ToolError("read"), ToolError("not_exposed")}
              \/ /\ Refusal(m) = NoText
                 /\ m.tool = "kyvon_server_list"
                 /\ r = ToolOk(IF "tag" \in DOMAIN m.args
                               THEN {s \in ListServers : m.args["tag"].v \in TagsOf[s]}
                               ELSE ListServers)
              \/ /\ Refusal(m) = NoText
                 /\ m.tool = "kyvon_server_get"
                 /\ r = ToolOk(GetServer(m.args["server_id"].v))
  <1>1. CASE Refusal(m) # NoText
    BY <1>1 DEF ToolAnswer
  <1>2. CASE Refusal(m) = NoText /\ fails
    BY <1>2 DEF ToolAnswer
  <1>3. CASE Refusal(m) = NoText /\ ~fails
    BY <1>3 DEF ToolAnswer
  <1> QED BY <1>1, <1>2, <1>3

(* A reply earned by its message, for a role and a backend (RepliesAreEarned,*)
(* of an exchange that is complete).                                         *)
Earned(m, reply) ==
    /\ reply = Silent <=> IsNotification(m)
    /\ reply.kind = "tool" /\ reply.ok =>
          /\ attached
          /\ m.method = "tools/call" /\ m.id = "scalar"
          /\ m.tool \in Listed(role) \ WriteTools
          /\ ValidArguments(m.tool, m.args)
    /\ reply = ToolError("permission") => m.tool \notin Listed(role)
    /\ reply.kind = "tool" /\ reply.ok /\ m.tool = "kyvon_server_list" /\ "tag" \in DOMAIN m.args
          => \A s \in reply.body : m.args["tag"].v \in TagsOf[s]

(* handle_message earns every reply it gives.                                *)
LEMMA ReplyIsEarned ==
    ASSUME NEW m \in Messages, NEW fails \in BOOLEAN
    PROVE  Earned(m, Reply(m, fails))
  <1> DEFINE r == Reply(m, fails)
  <1>1. CASE IsNotification(m)
    <2>1. r = Silent
      BY <1>1 DEF Reply
    <2> QED BY <1>1, <2>1 DEF Earned, Silent, ToolError
  <1>2. CASE ~IsNotification(m) /\ EnvelopeError(m) # 0
    <2>1. r = Error(EnvelopeError(m))
      BY <1>2 DEF Reply
    <2> QED BY <1>2, <2>1 DEF Earned, Silent, Error, ToolError
  <1>3. CASE ~IsNotification(m) /\ EnvelopeError(m) = 0 /\ m.method # "tools/call"
    <2>1. r \in {Result(Listed(role)), Result({}), Error(-32601)}
      BY <1>3 DEF Reply
    <2> QED BY <1>3, <2>1 DEF Earned, Silent, Error, Result, ToolError
  <1>4. CASE ~IsNotification(m) /\ EnvelopeError(m) = 0 /\ m.method = "tools/call"
    <2>1. r = ToolAnswer(m, fails)
      BY <1>4 DEF Reply
    <2>2. m.id = "scalar"
      BY <1>4 DEF EnvelopeError
    <2>3. r.kind = "tool" /\ r # Silent
      BY <2>1, ToolAnswerFact DEF ToolError, ToolOk, Silent
    <2>4. r.ok =>
             /\ Refusal(m) = NoText
             /\ m.tool = "kyvon_server_list" /\ "tag" \in DOMAIN m.args =>
                   r.body = {s \in ListServers : m.args["tag"].v \in TagsOf[s]}
      BY <2>1, ToolAnswerFact DEF ToolError, ToolOk
    <2>5. r = ToolError("permission") => Refusal(m) = "permission"
      <3>1. ~r.ok => r.why \in {Refusal(m), "read", "not_exposed"}
        BY <2>1, ToolAnswerFact DEF ToolError, ToolOk
      <3>2. r = ToolError("permission") => ~r.ok /\ r.why = "permission"
        BY DEF ToolError
      <3> QED BY <3>1, <3>2
    <2> QED BY <1>4, <2>2, <2>3, <2>4, <2>5, RefusalFact DEF Earned
  <1> QED BY <1>1, <1>2, <1>3, <1>4

(* A health call names a server.                                             *)
LEMMA HealthCallFact ==
    ASSUME NEW m, IsHealthCall(m)
    PROVE  m.args["server_id"].v # NoText /\ Refusal(m) = NoText /\ ~IsNotification(m)
           /\ m.id = "scalar" /\ m.method = "tools/call" /\ m.tool = "kyvon_server_health"
  <1>1. Refusal(m) = NoText /\ m.tool = "kyvon_server_health" /\ EnvelopeError(m) = 0
        /\ ~IsNotification(m) /\ m.method = "tools/call"
    BY DEF IsHealthCall
  <1>2. m.id = "scalar"
    BY <1>1 DEF EnvelopeError
  <1>3. ValidArguments("kyvon_server_health", m.args)
    BY <1>1, RefusalFact
  <1>4. Required("kyvon_server_health") = {"server_id"}
    BY DEF Required
  <1>5. ValidArgument("server_id", m.args["server_id"])
    BY <1>3, <1>4 DEF ValidArguments
  <1>6. m.args["server_id"].v # NoText
    BY <1>5 DEF ValidArgument
  <1> QED BY <1>1, <1>2, <1>6

(* RepliesAreEarned of an exchange that is complete.                         *)
LEMMA EarnedMeans ==
    ASSUME UNCHANGED <<role, attached>>, inflight' = NoCall,
           NEW m, NEW r, exchange'.msg = m, exchange'.reply = r, Earned(m, r),
           m.params \in {"absent", "object", "other"}
    PROVE  RepliesAreEarned'
  <1>1. r = Silent <=> m.json /\ m.object /\ m.version /\ m.method # NoText
                       /\ m.id = "absent" /\ m.params \in {"absent", "object"}
    BY DEF Earned, IsNotification
  <1> QED BY <1>1 DEF RepliesAreEarned, Answered, Earned, Listed

(* The gateway starts without a message.                                     *)
LEMMA GatewayInitInv ==
    MetricsInit /\ ApprovalsInit /\ GatewayInit => GatewayInv
  <1> SUFFICES ASSUME MetricsInit, ApprovalsInit, GatewayInit PROVE GatewayInv
    OBVIOUS
  <1>1. StoreInv /\ RecordedKept
    BY StoreInit DEF MetricsInit, RecordedKept
  <1>2. wall \in Clock
    BY DEF ApprovalsInit
  <1>3. DOMAIN exchange = {"msg", "reply"} /\ CallHolds
    BY DEF GatewayInit, Nothing, CallHolds
  <1>4. RepliesAreEarned
    <2>1. exchange = Nothing /\ exchange.reply = Silent
      BY DEF GatewayInit, Nothing
    <2> QED BY <2>1 DEF RepliesAreEarned, Answered, Silent, ToolError
  <1> QED BY <1>1, <1>2, <1>3, <1>4 DEF GatewayInv

(* Every step of the gateway, and of the desktop beside it, keeps it.        *)
LEMMA GatewayStepInv == GatewayInv /\ GatewayStep => GatewayInv'
  <1> SUFFICES ASSUME GatewayInv, GatewayStep PROVE GatewayInv'
    OBVIOUS
  <1>1. StoreInv' /\ RecordedKept'
    BY StoreStepInv, RecordedStep DEF GatewayInv, GatewayStep
  <1>2. wall' \in Clock /\ UNCHANGED <<role, attached>>
    BY DEF GatewayInv, GatewayStep
  <1>3. ASSUME DOMAIN exchange' = {"msg", "reply"}, CallHolds', RepliesAreEarned'
        PROVE  GatewayInv'
    BY <1>1, <1>2, <1>3 DEF GatewayInv
  <1>4. CASE UNCHANGED gatewayVars
    <2>1. UNCHANGED <<inflight, exchange, role, attached>>
      BY <1>4 DEF gatewayVars
    <2>2. CallHolds'
      <3>1. \A m : IsHealthCall(m)' <=> IsHealthCall(m)
        BY <2>1 DEF IsHealthCall, Refusal
      <3> QED BY <2>1, <3>1 DEF GatewayInv, CallHolds, IsHealthCall, Refusal
    <2>3. RepliesAreEarned'
      BY <2>1 DEF GatewayInv, RepliesAreEarned, Answered, Listed
    <2> QED BY <1>3, <2>1, <2>2, <2>3 DEF GatewayInv
  <1>5. ASSUME NEW m \in Messages, NEW fails \in BOOLEAN, Handle(m, fails)
        PROVE  GatewayInv'
    <2>1. PICK r : r = Reply(m, fails)
      OBVIOUS
    <2>2. exchange' = [msg |-> m, reply |-> r] /\ inflight' = NoCall
      BY <1>5, <2>1 DEF Handle
    <2>3. Earned(m, r) /\ m.params \in {"absent", "object", "other"}
      BY <2>1, ReplyIsEarned, MessagesAssumption
    <2>4. RepliesAreEarned'
      BY <1>2, <2>2, <2>3, EarnedMeans
    <2> QED BY <1>3, <2>2, <2>4 DEF CallHolds
  <1>6. ASSUME NEW m \in Messages, ReadHealth(m), UNCHANGED metricVars
        PROVE  GatewayInv'
    <2>1. PICK s : s = m.args["server_id"].v
      OBVIOUS
    <2>2. /\ inflight' = [server |-> s, found |-> LatestPerMetric(s),
                          stored |-> {k \in DOMAIN samples : k.server = s},
                          ever |-> {x[1] : x \in {y \in recorded : y[1].server = s}} \ pruned,
                          known |-> s \in live]
          /\ exchange' = [msg |-> m, reply |-> Silent]
          /\ IsHealthCall(m)
      BY <1>6, <2>1 DEF ReadHealth
    <2>3. s # NoText
      BY <2>1, <2>2, HealthCallFact
    <2>4. inflight' # NoCall
      BY <2>2, <2>3 DEF NoCall
    <2>5. IsHealthCall(m)'
      BY <1>2, <2>2 DEF IsHealthCall, Refusal
    <2>6. inflight'.stored \subseteq Key
      BY <2>2 DEF GatewayInv, StoreInv, SamplesShaped
    <2>7. inflight'.found = NewestOf(inflight'.stored)
      BY <2>2 DEF LatestPerMetric, NewestOf
    <2>8. inflight'.known => inflight'.ever \subseteq inflight'.stored
      <3>1. PICK e, st : /\ e = {x[1] : x \in {y \in recorded : y[1].server = s}}
                         /\ st = {k \in DOMAIN samples : k.server = s}
        OBVIOUS
      <3>2. ASSUME NEW k \in e, k \notin pruned, s \in live
            PROVE  k \in st
        <4>1. PICK x \in recorded : x[1].server = s /\ k = x[1]
          BY <3>1, <3>2
        <4>2. x[1] \in DOMAIN samples \cup pruned
          BY <3>2, <4>1 DEF GatewayInv, RecordedKept
        <4> QED BY <3>1, <3>2, <4>1, <4>2
      <3>3. inflight'.ever = e \ pruned /\ inflight'.stored = st /\ inflight'.known = (s \in live)
        BY <2>2, <3>1
      <3> QED BY <3>2, <3>3
    <2>9. CallHolds'
      BY <2>2, <2>5, <2>6, <2>7, <2>8 DEF CallHolds
    <2>10. RepliesAreEarned'
      BY <2>2, <2>4 DEF RepliesAreEarned, Answered, Silent, ToolError
    <2> QED BY <1>3, <2>2, <2>9, <2>10
  <1>7. CASE AnswerHealth
    <2>1. PICK b : exchange' = [exchange EXCEPT !.reply = ToolOk(b)]
      BY <1>7 DEF AnswerHealth
    <2>2. PICK m : m = exchange.msg
      OBVIOUS
    <2>3. IsHealthCall(m) /\ inflight' = NoCall
      BY <1>7, <2>2 DEF AnswerHealth, GatewayInv, CallHolds
    <2>4. exchange'.msg = m /\ exchange'.reply = ToolOk(b) /\ DOMAIN exchange' = {"msg", "reply"}
      BY <2>1, <2>2 DEF GatewayInv
    <2>5. Earned(m, ToolOk(b))
      BY <2>3, HealthCallFact, RefusalFact DEF Earned, ToolOk, Silent, ToolError
    <2>6. RepliesAreEarned'
      <3>1. m.id = "scalar"
        BY <2>3, HealthCallFact
      <3>2. ToolOk(b) # Silent
        BY DEF ToolOk, Silent
      <3> QED BY <1>2, <2>3, <2>4, <2>5, <3>1, <3>2
              DEF RepliesAreEarned, Answered, Earned, Listed
    <2> QED BY <1>3, <2>3, <2>4, <2>6 DEF CallHolds
  <1> QED BY <1>4, <1>5, <1>6, <1>7 DEF GatewayStep

(* A set of instants that is not empty has a latest one.                     *)
LEMMA LatestInstant ==
    ASSUME NEW S \in SUBSET Time, S # {}
    PROVE  Max(S) \in S /\ \A y \in S : y <= Max(S)
  <1>1. Time \subseteq Int /\ IsFiniteSet(Time)
    BY MetricsAssumption, FS_Interval DEF Time
  <1>2. S \in SUBSET Int /\ IsFiniteSet(S)
    BY <1>1, FS_Subset
  <1> QED BY <1>2, Extremes

(* The latest of the newest readings is the latest of all.                   *)
LEMMA NewestFact ==
    ASSUME NEW keys \in SUBSET Key, keys # {}
    PROVE  /\ NewestOf(keys) # {}
           /\ \E k \in keys : k.ts = Newest(NewestOf(keys))
           /\ \A k \in keys : k.ts <= Newest(NewestOf(keys))
  <1>1. \A k \in keys : k.ts \in Time
    BY DEF Key
  <1>2. ASSUME NEW k \in keys
        PROVE  \E l \in NewestOf(keys) : k.ts <= l.ts
    <2> DEFINE same == {l \in keys : l.metric = k.metric}
               S == {l.ts : l \in same}
    <2>1. S \in SUBSET Time /\ S # {} /\ k.ts \in S
      BY <1>1
    <2>2. Max(S) \in S /\ \A y \in S : y <= Max(S)
      BY <2>1, LatestInstant
    <2>3. PICK l \in same : l.ts = Max(S)
      BY <2>2
    <2>4. \A j \in keys : j.metric = l.metric => j.ts \in S
      BY <2>3
    <2>5. l \in NewestOf(keys)
      BY <2>2, <2>3, <2>4 DEF NewestOf
    <2> QED BY <2>1, <2>2, <2>3, <2>5
  <1>3. NewestOf(keys) # {} /\ NewestOf(keys) \subseteq keys
    BY <1>2 DEF NewestOf
  <1> DEFINE R == {k.ts : k \in NewestOf(keys)}
  <1>4. R \in SUBSET Time /\ R # {}
    BY <1>1, <1>3
  <1>5. Max(R) \in R /\ \A y \in R : y <= Max(R)
    BY <1>4, LatestInstant
  <1>6. Newest(NewestOf(keys)) = Max(R)
    BY DEF Newest
  <1>7. \E k \in keys : k.ts = Max(R)
    BY <1>3, <1>5
  <1>8. ASSUME NEW k \in keys
        PROVE  k.ts <= Max(R)
    <2>1. PICK l \in NewestOf(keys) : k.ts <= l.ts
      BY <1>2
    <2>2. l.ts \in R /\ l.ts <= Max(R)
      BY <1>5
    <2>3. k.ts \in Nat /\ l.ts \in Nat /\ Max(R) \in Nat
      BY <1>1, <1>3, <1>4, <1>5, MetricsAssumption DEF Time
    <2> QED BY <2>1, <2>2, <2>3
  <1> QED BY <1>3, <1>6, <1>7, <1>8

(* A health answer is honest: what is said follows from the read.            *)
LEMMA HealthStep ==
    ASSUME GatewayInv, GatewayStep, inflight # NoCall, inflight' = NoCall
    PROVE  LET said == exchange'.reply.body
               fresh == {k \in inflight.stored : wall - k.ts <= STALE_AFTER_MS}
           IN /\ ~said.measured => ~inflight.known \/ inflight.ever = {}
              /\ said.measured => said.stale = (fresh = {})
  <1>1. AnswerHealth
    BY DEF GatewayStep, Handle, ReadHealth, gatewayVars
  <1> DEFINE said == IF inflight.found = {} THEN [measured |-> FALSE, stale |-> FALSE]
                     ELSE [measured |-> TRUE,
                           stale |-> wall - Newest(inflight.found) > STALE_AFTER_MS]
             fresh == {k \in inflight.stored : wall - k.ts <= STALE_AFTER_MS}
  <1>2. exchange'.reply.body = said
    BY <1>1 DEF AnswerHealth, GatewayInv, ToolOk
  <1>3. /\ inflight.stored \in SUBSET Key
        /\ inflight.found = NewestOf(inflight.stored)
        /\ inflight.known => inflight.ever \subseteq inflight.stored
    BY DEF GatewayInv, CallHolds
  <1>4. ~said.measured => ~inflight.known \/ inflight.ever = {}
    <2>1. ~said.measured => inflight.found = {}
      OBVIOUS
    <2>2. inflight.found = {} => inflight.stored = {}
      BY <1>3, NewestFact
    <2> QED BY <1>3, <2>1, <2>2
  <1>5. said.measured => said.stale = (fresh = {})
    <2> SUFFICES ASSUME said.measured
                 PROVE  said.stale = (fresh = {})
      OBVIOUS
    <2>a. inflight.found # {}
      OBVIOUS
    <2>b. said.stale = (wall - Newest(inflight.found) > STALE_AFTER_MS)
      BY <2>a
    <2>1. inflight.stored # {}
      BY <1>3, <2>a DEF NewestOf
    <2>2. PICK n : n = Newest(inflight.found)
      OBVIOUS
    <2>3. /\ \E k \in inflight.stored : k.ts = n
          /\ \A k \in inflight.stored : k.ts <= n
      BY <1>3, <2>1, <2>2, NewestFact
    <2>4. /\ \A k \in inflight.stored : k.ts \in Nat
          /\ wall \in Int /\ STALE_AFTER_MS \in Nat
      BY <1>3, MetricsAssumption, ApprovalsAssumption, GatewayAssumption
         DEF GatewayInv, Key, Time, Clock
    <2>5. n \in Nat
      BY <2>3, <2>4
    <2>6. (wall - n > STALE_AFTER_MS) <=> \A k \in inflight.stored : ~(wall - k.ts <= STALE_AFTER_MS)
      BY <2>3, <2>4, <2>5
    <2>7. (wall - n > STALE_AFTER_MS) = (fresh = {})
      BY <2>6
    <2> QED BY <2>b, <2>2, <2>7
  <1> HIDE DEF said, fresh
  <1> QED BY <1>2, <1>4, <1>5 DEF fresh

(* Whatever the store, the gate and the clock do between two requests, the    *)
(* gateway (mcp_server.rs, tools.rs) keeps its inductive invariant.          *)
THEOREM GatewayInvariant == GatewaySpec => []GatewayInv
  <1>1. GatewayInv /\ UNCHANGED storeAndGateway => GatewayInv'
    <2>1. UNCHANGED storeAndGateway => GatewayStep
      BY GatewayStepCases
    <2> QED BY <2>1, GatewayStepInv
  <1> QED BY <1>1, GatewayInitInv, GatewayStepInv, PTL DEF GatewaySpec

(* RepliesAreEarned for any messages, servers and tags, in whatever way the  *)
(* store and the clock move between two messages or between the read and the *)
(* answer of a health call: only notifications stay unanswered, and no tool  *)
(* that writes, that the role is not listed, or whose arguments do not fit   *)
(* ever succeeds (mcp_server.rs handle_message, dispatch_tool_call).         *)
THEOREM RepliesStayEarned == GatewaySpec => []RepliesAreEarned
  <1>1. GatewayInv => RepliesAreEarned
    BY DEF GatewayInv
  <1> QED BY <1>1, GatewayInvariant, PTL

(* HealthIsHonest for any number of servers and metrics, any clock and any   *)
(* age limit: what is said of a server follows from everything its store     *)
(* held at the read, not only from the newest sample per metric that the     *)
(* query returned (mcp_server.rs kyvon_server_health, latest_per_metric).    *)
THEOREM HealthStaysHonest == GatewaySpec => HealthIsHonest
  <1>1. GatewayInv /\ [GatewayStep]_storeAndGateway =>
          [inflight # NoCall /\ inflight' = NoCall =>
             LET said == exchange'.reply.body
                 fresh == {k \in inflight.stored : wall - k.ts <= STALE_AFTER_MS}
             IN /\ ~said.measured => ~inflight.known \/ inflight.ever = {}
                /\ said.measured => said.stale = (fresh = {})]_gatewayVars
    <2>1. UNCHANGED storeAndGateway => UNCHANGED gatewayVars
      BY DEF storeAndGateway
    <2> QED BY <2>1, HealthStep
  <1> QED BY <1>1, GatewayInvariant, PTL DEF GatewaySpec, HealthIsHonest

-----------------------------------------------------------------------------
(* Types of the gateway.                                                     *)

(* To the store, the gateway and the desktop beside it are statements.       *)
LEMMA GatewayUsesTheStore == GatewaySpec => StoreSpec
  <1>1. [GatewayStep]_storeAndGateway => [StoreStep]_metricVars
    BY DEF GatewayStep, storeAndGateway
  <1> QED BY <1>1, PTL DEF GatewaySpec, StoreSpec

(* Every reply is one of the four kinds.                                     *)
LEMMA ReplyHasAKind ==
    ASSUME NEW m, NEW fails \in BOOLEAN
    PROVE  Reply(m, fails).kind \in {"silent", "error", "result", "tool"}
  <1>1. Silent.kind = "silent" /\ \A code : Error(code).kind = "error"
    BY DEF Silent, Error
  <1>2. \A b : Result(b).kind = "result" /\ ToolError(b).kind = "tool" /\ ToolOk(b).kind = "tool"
    BY DEF Result, ToolError, ToolOk
  <1>3. ToolAnswer(m, fails).kind = "tool"
    BY <1>2, ToolAnswerFact
  <1> QED BY <1>1, <1>2, <1>3 DEF Reply

(* What a health call reads from a well-typed store are keys.                *)
LEMMA ReadsAreKeys ==
    ASSUME MetricsTypeOK, NEW s
    PROVE  /\ LatestPerMetric(s) \subseteq Key
           /\ {k \in DOMAIN samples : k.server = s} \subseteq Key
           /\ {x[1] : x \in {y \in recorded : y[1].server = s}} \ pruned \subseteq Key
  <1>1. DOMAIN samples \subseteq Key
    BY DEF MetricsTypeOK, Key
  <1>2. \A x \in recorded : x[1] \in Key
    BY DEF MetricsTypeOK
  <1> QED BY <1>1, <1>2 DEF LatestPerMetric

LEMMA GatewayTypesInit == GatewayInit => GatewayTypeOK
  BY DEF GatewayInit, GatewayTypeOK, NoCall, Nothing, Silent

LEMMA GatewayTypesStep ==
    MetricsTypeOK /\ GatewayTypeOK /\ [GatewayStep]_storeAndGateway => GatewayTypeOK'
  <1> SUFFICES ASSUME MetricsTypeOK, GatewayTypeOK, [GatewayStep]_storeAndGateway
               PROVE  GatewayTypeOK'
    OBVIOUS
  <1>1. role' \in McpRole /\ attached' \in BOOLEAN
    BY DEF GatewayTypeOK, GatewayStep, storeAndGateway, gatewayVars
  <1>2. CASE UNCHANGED gatewayVars
    BY <1>2 DEF GatewayTypeOK, gatewayVars
  <1>3. ASSUME NEW m \in Messages, NEW fails \in BOOLEAN, Handle(m, fails)
        PROVE  GatewayTypeOK'
    <2>1. PICK r : r = Reply(m, fails)
      OBVIOUS
    <2>2. exchange' = [msg |-> m, reply |-> r] /\ UNCHANGED inflight
      BY <1>3, <2>1 DEF Handle
    <2>3. r.kind \in {"silent", "error", "result", "tool"}
      BY <2>1, ReplyHasAKind
    <2> QED BY <1>1, <2>2, <2>3 DEF GatewayTypeOK
  <1>4. ASSUME NEW m \in Messages, ReadHealth(m)
        PROVE  GatewayTypeOK'
    <2>1. PICK s : s = m.args["server_id"].v
      OBVIOUS
    <2>2. PICK found, stored, ever :
              /\ found = LatestPerMetric(s)
              /\ stored = {k \in DOMAIN samples : k.server = s}
              /\ ever = {x[1] : x \in {y \in recorded : y[1].server = s}} \ pruned
      OBVIOUS
    <2>3. /\ inflight' = [server |-> s, found |-> found, stored |-> stored, ever |-> ever,
                          known |-> s \in live]
          /\ exchange' = [msg |-> m, reply |-> Silent]
      BY <1>4, <2>1, <2>2 DEF ReadHealth
    <2>4. found \cup stored \cup ever \subseteq Key
      BY <2>2, ReadsAreKeys
    <2>5. Silent.kind = "silent"
      BY DEF Silent
    <2> QED BY <1>1, <2>3, <2>4, <2>5 DEF GatewayTypeOK, NoCall
  <1>5. CASE AnswerHealth
    <2>1. PICK b : exchange' = [exchange EXCEPT !.reply = ToolOk(b)]
      BY <1>5 DEF AnswerHealth
    <2>2. DOMAIN exchange' = {"msg", "reply"} /\ exchange'.reply = ToolOk(b)
      BY <2>1 DEF GatewayTypeOK
    <2>3. ToolOk(b).kind = "tool"
      BY DEF ToolOk
    <2>4. inflight' = NoCall
      BY <1>5 DEF AnswerHealth
    <2>5. NoCall.found \cup NoCall.stored \cup NoCall.ever \subseteq Key
      BY DEF NoCall
    <2> QED BY <1>1, <2>2, <2>3, <2>4, <2>5 DEF GatewayTypeOK
  <1> QED BY <1>2, <1>3, <1>4, <1>5 DEF GatewayStep, storeAndGateway

(* Every reply has a kind, and what a health call holds between its read and *)
(* its answer are keys of samples, whatever the store does meanwhile         *)
(* (mcp_server.rs handle_message, kyvon_server_health).                      *)
THEOREM GatewayTypeCorrect == GatewaySpec => []GatewayTypeOK
  <1>1. GatewaySpec => []MetricsTypeOK
    BY GatewayUsesTheStore, StoreTypeCorrect, PTL
  <1> QED BY <1>1, GatewayTypesInit, GatewayTypesStep, PTL DEF GatewaySpec

=============================================================================
