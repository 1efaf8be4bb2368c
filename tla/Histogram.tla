----------------------------- MODULE Histogram ------------------------------
(***************************************************************************)
(* Histogram (src/telemetry_metrics.cpp): observe adds to a bucket, to the *)
(* count and to the sum, one after the other; snapshot reads the count,    *)
(* the sum and the buckets, one after the other.  Only the sum has a lock. *)
(* A bucket is named by its upper boundary.  The names are told apart from *)
(* RateLimiter's, with which it shares the module of its proofs.           *)
(*                                                                         *)
(* A definition named Op_Something is Op with a mistake in it.  No action  *)
(* uses it: it is there to show that the properties would notice.          *)
(***************************************************************************)
EXTENDS Integers, Sequences, FiniteSets, Sums

CONSTANTS
    Observers,       \* threads that call observe
    Values,          \* what they observe
    Boundaries,      \* options.histogram_buckets
    Infinity,        \* above all of them: the boundary of the last bucket
    MaxObservations  \* bound: how many observations there are

ASSUME HistogramAssumption ==
    /\ IsFiniteSet(Observers)
    /\ Boundaries \subseteq Int /\ IsFiniteSet(Boundaries)
    /\ Values \subseteq Int /\ IsFiniteSet(Values)
    /\ Infinity \in Int /\ \A x \in Boundaries \cup Values : x < Infinity
    /\ MaxObservations \in Nat

Uppers == Boundaries \cup {Infinity}

VARIABLES
    bucket_counts, sample_count, sample_sum,
    observer,      \* where each thread is in observe, and its value
    reader,        \* how far the thread that takes a snapshot is in ReadOrder
    result,        \* the snapshot it takes, or has taken, and its sum of buckets
    observations,  \* history: how often each value was observed...
    earlier        \* ... and how often when the snapshot began

counts == <<bucket_counts, sample_count, sample_sum>>
histogramVars == <<counts, observer, reader, result, observations, earlier>>

Idle == [step |-> "idle", value |-> 0]
Nothing == [v \in Values |-> 0]
Empty == [count |-> 0, sum |-> 0, cumulative |-> 0, buckets |-> [u \in {} |-> 0]]

HistogramInit ==
    /\ bucket_counts = [u \in Uppers |-> 0] /\ sample_count = 0 /\ sample_sum = 0
    /\ observer = [t \in Observers |-> Idle]
    /\ reader = 0 /\ result = Empty
    /\ observations = Nothing /\ earlier = Nothing

-----------------------------------------------------------------------------
(* observe, called by t.                                                   *)

\* As if the search began after the first boundary.
BucketFor_SkipsFirst(u, value) ==
    LET rest == {x \in Uppers : \E y \in Uppers : y < x}
    IN  u \in rest /\ u > value /\ \A x \in rest : x > value => u <= x

\* std::upper_bound: the first boundary above the value.
BucketFor(u, value) == u > value /\ \A x \in Uppers : x > value => u <= x

Advance(t, from, to) ==
    /\ observer[t].step = from
    /\ observer' = [observer EXCEPT ![t].step = to]

Observe(t, value) ==
    /\ observer[t] = Idle /\ SumOf(observations, Values) < MaxObservations
    /\ observer' = [observer EXCEPT ![t] = [step |-> "count", value |-> value]]
    /\ \E u \in Uppers : BucketFor(u, value) /\ bucket_counts' = [bucket_counts EXCEPT ![u] = @ + 1]
    /\ observations' = [observations EXCEPT ![value] = @ + 1]
    /\ UNCHANGED <<sample_count, sample_sum, reader, result, earlier>>

Count(t) ==
    /\ Advance(t, "count", "sum")
    /\ sample_count' = sample_count + 1
    /\ UNCHANGED <<bucket_counts, sample_sum, reader, result, observations, earlier>>

Sum(t) ==
    /\ observer[t].step = "sum"
    /\ sample_sum' = sample_sum + observer[t].value
    /\ observer' = [observer EXCEPT ![t] = Idle]
    /\ UNCHANGED <<bucket_counts, sample_count, reader, result, observations, earlier>>

-----------------------------------------------------------------------------
(* snapshot.                                                               *)

ReadOrder_CountLast == <<"sum", "buckets", "count">>

ReadOrder == <<"count", "sum", "buckets">>

\* The reader is at what, and when it is done goes on, back to 0 at the end.
Read(what, done) ==
    /\ reader # 0 /\ ReadOrder[reader] = what
    /\ reader' = IF done THEN (reader + 1) % (Len(ReadOrder) + 1) ELSE reader
    /\ UNCHANGED <<counts, observer, observations, earlier>>

TakeSnapshot ==
    /\ reader = 0 /\ reader' = 1
    /\ result' = Empty /\ earlier' = observations
    /\ UNCHANGED <<counts, observer, observations>>

ReadCount == Read("count", TRUE) /\ result' = [result EXCEPT !.count = sample_count]

ReadSum == Read("sum", TRUE) /\ result' = [result EXCEPT !.sum = sample_sum]

\* From the lowest bucket up; each is given with all that are below it.
ReadBucket ==
    LET left == Uppers \ DOMAIN result.buckets
    IN  \E u \in left :
            LET cumulative == result.cumulative + bucket_counts[u]
            IN  /\ \A x \in left : u <= x
                /\ Read("buckets", left = {u})
                /\ result' = [result EXCEPT
                       !.cumulative = cumulative,
                       !.buckets = [x \in DOMAIN @ \cup {u} |-> IF x = u THEN cumulative ELSE @[x]]]

HistogramNext ==
    \/ \E t \in Observers : (\E v \in Values : Observe(t, v)) \/ Count(t) \/ Sum(t)
    \/ TakeSnapshot \/ ReadCount \/ ReadSum \/ ReadBucket

HistogramSpec == HistogramInit /\ [][HistogramNext]_histogramVars

-----------------------------------------------------------------------------
\* How often f says that a value below x, or one up to x, was observed.
Below(f, x) == SumOf(f, {v \in Values : v < x})
UpTo(f, x) == SumOf(f, {v \in Values : v <= x})

\* What the bucket of u and those before it hold, exported with le = u.
CumulativeCount(u) == SumOf(bucket_counts, {x \in Uppers : x <= u})

NobodyObserves == \A t \in Observers : observer[t] = Idle

(* When nobody observes, every observation is in a bucket, in the count    *)
(* and in the sum: up to the bucket of a boundary there are all values     *)
(* below it and none above it.  Which side a value EQUAL to the boundary   *)
(* belongs to is left open here: see BucketsAreLe.                         *)
BucketsAddUp ==
    NobodyObserves =>
        /\ \A u \in Uppers :
               /\ Below(observations, u) <= CumulativeCount(u)
               /\ CumulativeCount(u) <= UpTo(observations, u)
        /\ sample_count = SumOf(observations, Values)
        /\ sample_sum = SumOf([v \in Values |-> v * observations[v]], Values)

(* A Prometheus-compatible bucket with the label le = u (the README of the *)
(* repository, and telemetry_metrics.cpp:392) counts the values less than  *)
(* or EQUAL to u.  The code does not keep it: upper_bound puts a value     *)
(* that equals a boundary into the bucket after it.                        *)
BucketsAreLe ==
    NobodyObserves => \A u \in Uppers : CumulativeCount(u) = UpTo(observations, u)

(* A snapshot taken while others observe is never short of what had been   *)
(* observed before it nor ahead of what has been since, for any boundary,  *)
(* and its last bucket (+Inf) is never below its count.                    *)
SnapshotCovers ==
    reader = 0 /\ DOMAIN result.buckets = Uppers =>
        /\ \A u \in Uppers :
               /\ Below(earlier, u) <= result.buckets[u]
               /\ result.buckets[u] <= UpTo(observations, u)
        /\ result.count <= result.buckets[Infinity]

=============================================================================
