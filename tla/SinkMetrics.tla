---------------------------- MODULE SinkMetrics -----------------------------
(***************************************************************************)
(* TelemetryPipeline::update_sink_metrics (src/telemetry_pipeline.cpp),    *)
(* called by every worker at the end of publish_batch: it adds up the      *)
(* drops of all sinks and exports what is new since the last update in the *)
(* counter telemetry_sink_queue_dropped_total.  Nothing but atomics orders *)
(* the workers: each submit, each load, the exchange and the increment are *)
(* steps of their own.  The names are told apart from RateLimiter's, with  *)
(* which it shares the module of its proofs.                               *)
(*                                                                         *)
(* A definition named Op_Something is Op with a mistake in it.  No action  *)
(* uses it: it is there to show that the properties would notice.          *)
(***************************************************************************)
EXTENDS Integers, FiniteSets, Sums

CONSTANTS
    Workers,
    NumSinks,   \* number of sinks
    MaxBatches  \* bound: batches each worker publishes

ASSUME MetricsAssumption ==
    /\ IsFiniteSet(Workers)
    /\ NumSinks \in Nat \ {0} /\ MaxBatches \in Nat

Sinks == 1 .. NumSinks

VARIABLES
    sinkDropped,           \* stats().dropped of each sink
    last_sink_dropped,     \* std::atomic<std::uint64_t>
    sink_dropped_counter,  \* telemetry_sink_queue_dropped_total
    place,                 \* where each worker is
    sink,                  \* the sink its loop has got to
    total_dropped,         \* its local sum
    previous,              \* what its exchange gave back
    batches                \* how many batches it has begun

dropVars ==
    <<sinkDropped, last_sink_dropped, sink_dropped_counter, place, sink, total_dropped, previous, batches>>

UpdateSteps == {"idle", "submit", "load", "exchange", "increment"}

DropsTyped ==
    /\ sinkDropped \in [Sinks -> Nat]
    /\ last_sink_dropped \in Nat /\ sink_dropped_counter \in Nat
    /\ place \in [Workers -> UpdateSteps]
    /\ sink \in [Workers -> Sinks]
    /\ total_dropped \in [Workers -> Nat] /\ previous \in [Workers -> Nat]
    /\ batches \in [Workers -> 0 .. MaxBatches]

DropInit ==
    /\ sinkDropped = [s \in Sinks |-> 0]
    /\ last_sink_dropped = 0 /\ sink_dropped_counter = 0
    /\ place = [w \in Workers |-> "idle"]
    /\ sink = [w \in Workers |-> 1]
    /\ total_dropped = [w \in Workers |-> 0]
    /\ previous = [w \in Workers |-> 0]
    /\ batches = [w \in Workers |-> 0]

StepTo(w, from, to) == place[w] = from /\ place' = [place EXCEPT ![w] = to]

\* A loop over the sinks: on to the next one, or to the step after the loop.
ForEachSink(w, here, after) ==
    \/ sink[w] < NumSinks /\ StepTo(w, here, here) /\ sink' = [sink EXCEPT ![w] = @ + 1]
    \/ sink[w] = NumSinks /\ StepTo(w, here, after) /\ sink' = [sink EXCEPT ![w] = 1]

-----------------------------------------------------------------------------
BeginPublish(w) ==
    /\ batches[w] < MaxBatches
    /\ StepTo(w, "idle", "submit")
    /\ batches' = [batches EXCEPT ![w] = @ + 1]
    /\ UNCHANGED <<sinkDropped, last_sink_dropped, sink_dropped_counter, sink, total_dropped, previous>>

\* sink->submit(payload), which may drop a payload from the sink's queue.
Submit(w) ==
    /\ ForEachSink(w, "submit", "load")
    /\ \E n \in {0, 1} : sinkDropped' = [sinkDropped EXCEPT ![sink[w]] = @ + n]
    /\ total_dropped' = [total_dropped EXCEPT ![w] = 0]
    /\ UNCHANGED <<last_sink_dropped, sink_dropped_counter, previous, batches>>

\* As if only the last sink were counted.
LoadDropped_LastSink(w) ==
    /\ ForEachSink(w, "load", "exchange")
    /\ total_dropped' = [total_dropped EXCEPT ![w] = sinkDropped[sink[w]]]
    /\ UNCHANGED <<sinkDropped, last_sink_dropped, sink_dropped_counter, previous, batches>>

LoadDropped(w) ==
    /\ ForEachSink(w, "load", "exchange")
    /\ total_dropped' = [total_dropped EXCEPT ![w] = @ + sinkDropped[sink[w]]]
    /\ UNCHANGED <<sinkDropped, last_sink_dropped, sink_dropped_counter, previous, batches>>

ExchangeLast(w) ==
    /\ StepTo(w, "exchange", "increment")
    /\ previous' = [previous EXCEPT ![w] = last_sink_dropped]
    /\ last_sink_dropped' = total_dropped[w]
    /\ UNCHANGED <<sinkDropped, sink_dropped_counter, sink, total_dropped, batches>>

Increment(w) ==
    /\ StepTo(w, "increment", "idle")
    /\ sink_dropped_counter' = sink_dropped_counter +
           (IF total_dropped[w] > previous[w] THEN total_dropped[w] - previous[w] ELSE 0)
    /\ UNCHANGED <<sinkDropped, last_sink_dropped, sink, total_dropped, previous, batches>>

DropNext ==
    \E w \in Workers :
        BeginPublish(w) \/ Submit(w) \/ LoadDropped(w) \/ ExchangeLast(w) \/ Increment(w)

DropSpec == DropInit /\ [][DropNext]_dropVars

-----------------------------------------------------------------------------
\* How many payloads the sinks have dropped.
Drops == SumOf(sinkDropped, Sinks)

AtRest == \A w \in Workers : place[w] = "idle"

(* The exported counter never claims a drop that did not happen.           *)
NeverOvercounts == sink_dropped_counter <= Drops

(* With any number of workers no drop is missing from it once they are all *)
(* between two batches, in whatever order their exchanges came.            *)
NoDropMissing == AtRest => sink_dropped_counter >= Drops

=============================================================================
