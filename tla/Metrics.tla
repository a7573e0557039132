------------------------------- MODULE Metrics -------------------------------
(* The metric store of kyvon-storage: raw samples, the rollups computed from  *)
(* them, and retention. A statement is atomic, prune is four statements and   *)
(* other operations (or the end of the process) come between them. A sample's *)
(* timestamp is the monitored host's own clock, `before` and `now` are        *)
(* whatever the caller passes, so none of the three follows another.          *)
EXTENDS Integers, Sequences, FiniteSets, FiniteSetsExt, Functions

CONSTANTS
    Servers, MetricKeys,
    Values,      \* sample values
    Batches,     \* frames to insert: maps from metric keys to values
    MaxTime,     \* bound: timestamps are 0..MaxTime
    MaxCalls,    \* bound: insert_samples, roll_up and prune calls
    Rollups,     \* the resolutions but raw, finest first (1m, 5m, 1h)
    BucketMs,    \* Resolution::bucket_ms of each rollup
    RetentionMs, \* Resolution::retention_ms
    WindowMs     \* Resolution::for_window: the widest window of each resolution

RollupNames == Range(Rollups)
Resolution == {"raw"} \cup RollupNames

ASSUME MetricsAssumption ==
    /\ MaxTime \in Nat /\ MaxCalls \in Nat
    /\ Values \subseteq Int /\ Values # {}
    /\ \A batch \in Batches : \E ms \in SUBSET MetricKeys : batch \in [ms -> Values]
    /\ Rollups \in Seq(STRING) /\ Rollups # <<>> /\ "raw" \notin RollupNames
    /\ BucketMs \in [RollupNames -> Nat \ {0}]
    /\ RetentionMs \in [Resolution -> Nat]
    /\ WindowMs \in [Resolution -> Nat]

VARIABLES
    live,     \* ids with a row in servers
    samples,  \* table metric_samples: a map from keys to values
    aggs,     \* table metric_aggregates: a map from buckets to summaries
    sweep,    \* the prune under way: its next statement and its `now`
    budget,   \* bound: calls still to be made
    recorded, \* every <<key, value>> a call ever committed
    pruned,   \* keys retention removed
    horizon   \* the `before` of the latest roll_up

storeVars == <<live, samples, aggs, sweep>>
metricVars == <<storeVars, budget, recorded, pruned, horizon>>

Time == 0..MaxTime
Key == [server : Servers, metric : MetricKeys, ts : Time]
Bucket == [server : Servers, metric : MetricKeys, res : RollupNames, start : Time]

(* MetricAggregate: avg is sum over samples; `of` remembers from which.      *)
Summary == [sum : Int, min : Int, max : Int, p95 : Int, samples : Nat, of : SUBSET Time]

Idle == [step |-> 0, now |-> 0]

MetricsInit ==
    /\ live \in SUBSET Servers
    /\ samples = [k \in {} |-> 0]
    /\ aggs = [b \in {} |-> 0]
    /\ sweep = Idle
    /\ budget \in 0..MaxCalls
    /\ recorded = {}
    /\ pruned = {}
    /\ horizon = 0

-----------------------------------------------------------------------------
KeyOf(s, m, t) == [server |-> s, metric |-> m, ts |-> t]

(* insert_samples: one frame, one transaction. The same instant reported     *)
(* twice keeps the later value; a server without a row fails the batch.      *)
InsertSamples(s, t, batch) ==
    LET keys == {KeyOf(s, m, t) : m \in DOMAIN batch}
    IN /\ budget > 0
       /\ s \in live
       /\ samples' = [k \in DOMAIN samples \cup keys |->
                         IF k \in keys THEN batch[k.metric] ELSE samples[k]]
       /\ recorded' = recorded \cup {<<k, batch[k.metric]>> : k \in keys}
       /\ budget' = budget - 1
       /\ UNCHANGED <<live, aggs, sweep, pruned, horizon>>

-----------------------------------------------------------------------------
BucketOf(res, k) ==
    [server |-> k.server, metric |-> k.metric, res |-> res,
     start |-> k.ts - (k.ts % BucketMs[res])]

(* A job that folds only what came in since one bucket ago.                  *)
Folded_Recent(res, before) ==
    {k \in DOMAIN samples : k.ts < before /\ k.ts >= before - BucketMs[res]}

(* WHERE ts < ?3 *)
Folded(res, before) == {k \in DOMAIN samples : k.ts < before}

(* The rank of the 95th percentile among n values: at least one, at most n.  *)
P95Rank(n) == (n * 95 + 99) \div 100

(* MAX(CASE WHEN rank_in_bucket <= p95_rank THEN value END): the value of    *)
(* that rank when they are ordered.                                          *)
P95(f) ==
    LET below(v) == {k \in DOMAIN f : f[k] <= v}
    IN Min({v \in Range(f) : Cardinality(below(v)) >= P95Rank(Cardinality(DOMAIN f))})

(* AVG, MIN, MAX, p95 and COUNT over the rows of a group.                    *)
Summarise(keys) ==
    LET f == [k \in keys |-> samples[k]]
    IN [sum |-> FoldFunction(+, 0, f),
        min |-> Min(Range(f)), max |-> Max(Range(f)), p95 |-> P95(f),
        samples |-> Cardinality(keys), of |-> {k.ts : k \in keys}]

(* roll_up: one statement; a bucket that exists is overwritten.              *)
RollUp(res, before) ==
    LET keys == Folded(res, before)
        buckets == {BucketOf(res, k) : k \in keys}
        group(b) == {k \in keys : BucketOf(res, k) = b}
    IN /\ aggs' = [b \in DOMAIN aggs \cup buckets |->
                      IF b \in buckets THEN Summarise(group(b)) ELSE aggs[b]]
       /\ budget > 0
       /\ budget' = budget - 1
       /\ horizon' = before
       /\ UNCHANGED <<live, samples, sweep, recorded, pruned>>

-----------------------------------------------------------------------------
(* prune begins with the raw samples...                                      *)
PruneRaw(now) ==
    LET old == {k \in DOMAIN samples : k.ts < now - RetentionMs["raw"]}
    IN /\ sweep = Idle
       /\ samples' = [k \in DOMAIN samples \ old |-> samples[k]]
       /\ pruned' = pruned \cup old
       /\ sweep' = [step |-> 1, now |-> now]
       /\ budget > 0
       /\ budget' = budget - 1
       /\ UNCHANGED <<live, aggs, recorded, horizon>>

(* ... and goes through the rollups, one statement each.                     *)
PruneRollup ==
    LET res == Rollups[sweep.step]
        old == {b \in DOMAIN aggs :
                   b.res = res /\ b.start < sweep.now - RetentionMs[res]}
    IN /\ sweep # Idle
       /\ aggs' = [b \in DOMAIN aggs \ old |-> aggs[b]]
       /\ sweep' = IF sweep.step = Len(Rollups) THEN Idle
                   ELSE [sweep EXCEPT !.step = @ + 1]
       /\ UNCHANGED <<live, samples, budget, recorded, pruned, horizon>>

(* A statement fails, or the process exits: nothing is taken back.           *)
PruneStops ==
    /\ sweep # Idle
    /\ sweep' = Idle
    /\ UNCHANGED <<live, samples, aggs, budget, recorded, pruned, horizon>>

(* delete_server: both tables reference the row ON DELETE CASCADE.           *)
ForgetServer(s) ==
    /\ s \in live
    /\ live' = live \ {s}
    /\ samples' = [k \in {x \in DOMAIN samples : x.server # s} |-> samples[k]]
    /\ aggs' = [b \in {x \in DOMAIN aggs : x.server # s} |-> aggs[b]]
    /\ UNCHANGED <<sweep, budget, recorded, pruned, horizon>>

-----------------------------------------------------------------------------
(* Resolution::for_window; a window that ends before it begins is raw.       *)
ForWindow(w) ==
    LET order == <<"raw">> \o Rollups
        fits == {i \in 1..Len(order) : w <= WindowMs[order[i]]} \cup {Len(order)}
    IN order[Min(fits)]

(* The bucket that holds the left edge is drawn as well.                     *)
Series_Overlapping(s, m, from, to) ==
    LET res == ForWindow(to - from)
    IN IF res = "raw"
       THEN {[ts |-> k.ts, sum |-> samples[k], n |-> 1] :
                k \in {x \in DOMAIN samples : x.server = s /\ x.metric = m /\ x.ts \in from..to}}
       ELSE {[ts |-> b.start, sum |-> aggs[b].sum, n |-> aggs[b].samples] :
                b \in {x \in DOMAIN aggs : x.server = s /\ x.metric = m /\ x.res = res
                                           /\ x.start + BucketMs[res] > from /\ x.start <= to}}

(* series: points of a chart, raw samples or the averages of a rollup.       *)
Series(s, m, from, to) ==
    LET res == ForWindow(to - from)
    IN IF res = "raw"
       THEN {[ts |-> k.ts, sum |-> samples[k], n |-> 1] :
                k \in {x \in DOMAIN samples : x.server = s /\ x.metric = m /\ x.ts \in from..to}}
       ELSE {[ts |-> b.start, sum |-> aggs[b].sum, n |-> aggs[b].samples] :
                b \in {x \in DOMAIN aggs : x.server = s /\ x.metric = m /\ x.res = res
                                           /\ x.start \in from..to}}

(* latest_per_metric: the newest sample of each metric, whatever its age.    *)
LatestPerMetric(s) ==
    {k \in DOMAIN samples : k.server = s /\
        \A l \in DOMAIN samples : l.server = s /\ l.metric = k.metric => l.ts <= k.ts}

-----------------------------------------------------------------------------
MetricsNext ==
    \/ \E s \in Servers, t \in Time, batch \in Batches : InsertSamples(s, t, batch)
    \/ \E res \in RollupNames, before \in Time : RollUp(res, before)
    \/ \E now \in Time : PruneRaw(now)
    \/ PruneRollup
    \/ PruneStops
    \/ \E s \in Servers : ForgetServer(s)

MetricsSpec == MetricsInit /\ [][MetricsNext]_metricVars

-----------------------------------------------------------------------------
MetricsTypeOK ==
    /\ live \subseteq Servers
    /\ DOMAIN samples \subseteq [server : live, metric : MetricKeys, ts : Time]
    /\ \A k \in DOMAIN samples : samples[k] \in Values
    /\ DOMAIN aggs \subseteq [server : live, metric : MetricKeys, res : RollupNames, start : Time]
    /\ \A b \in DOMAIN aggs : aggs[b] \in Summary
    /\ sweep \in [step : 0..Len(Rollups), now : Time]
    /\ budget \in 0..MaxCalls
    /\ recorded \subseteq Key \X Values
    /\ pruned \subseteq Key
    /\ horizon \in Time

(* A roll-up that writes a bucket again forgets only samples that retention  *)
(* removed or that its own `before` excludes: nothing that was inserted late,*)
(* overwritten, or swept by a prune still under way drops out of a bucket    *)
(* while it is stored (metrics.rs roll_up's upsert against prune).           *)
RollUpNeverForgets ==
    [][\A b \in DOMAIN aggs \cap DOMAIN aggs' : \A t \in aggs[b].of \ aggs'[b].of :
          \/ KeyOf(b.server, b.metric, t) \in pruned
          \/ t >= horizon']_metricVars

ObservedIn(s, m, lo, hi) ==
    {r[2] : r \in {x \in recorded : x[1].server = s /\ x[1].metric = m /\ x[1].ts \in lo..hi}}

(* A chart shows only what was observed: every point lies in the window, a   *)
(* raw point is a recorded sample, and a rollup point is an average that     *)
(* lies between two samples recorded in its bucket (metrics.rs series).      *)
ChartPointsAreObserved ==
    \A s \in Servers, m \in MetricKeys, from \in Time, to \in Time :
        LET res == ForWindow(to - from)
            width == IF res = "raw" THEN 1 ELSE BucketMs[res]
        IN \A p \in Series(s, m, from, to) :
              LET seen == ObservedIn(s, m, p.ts, p.ts + width - 1)
              IN /\ p.ts \in from..to
                 /\ p.n \in 1..width
                 /\ \E lo, hi \in seen : lo * p.n <= p.sum /\ p.sum <= hi * p.n
=============================================================================
