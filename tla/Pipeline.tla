------------------------------ MODULE Pipeline ------------------------------
(***************************************************************************)
(* TelemetryPipeline (src/telemetry_pipeline.cpp): any number of threads   *)
(* call enqueue, the worker threads take events from one bounded queue     *)
(* into batches and hand every batch to the stream hub and to the sinks,   *)
(* and the controlling thread starts and stops it all.                     *)
(*                                                                         *)
(* A call of the queue is one step (BoundedQueue is shown to be atomic     *)
(* elsewhere); every read of `running', every counter and every hand-over  *)
(* of a batch to one output is a step of its own.  The outcome of sampling *)
(* and of the rate limit is left open: either may reject any event.        *)
(*                                                                         *)
(* A definition named Op_Something is Op with a mistake in it.  No action  *)
(* uses it: it is there to show that the properties would notice.          *)
(***************************************************************************)
EXTENDS QueueOps, FiniteSets, Functions, SequencesExt

CONSTANTS
    Producers,          \* threads that call enqueue
    Workers,            \* the threads of worker_loop
    Events,             \* the events they enqueue, each one once
    NoEvent,            \* what the event of a worker or caller is before the first
    Policy,             \* config.overflow_policy
    QueueSize,          \* config.queue_size
    BatchSize,          \* config.batch_size
    RuntimeBatchSizes,  \* values passed to update_runtime_config
    NumSinks            \* number of sinks added before start

ASSUME PipelineAssumption ==
    /\ IsFiniteSet(Producers) /\ IsFiniteSet(Events)
    /\ Workers # {}  \* ConfigLoader::validate wants a worker_count above zero
    /\ NoEvent \notin Events
    /\ Policy \in AllPolicies
    /\ QueueSize \in Nat /\ BatchSize \in Nat /\ NumSinks \in Nat
    /\ RuntimeBatchSizes \subseteq Nat

VARIABLES
    running,     \* std::atomic<bool> running
    queue,       \* the items of the queue
    closed,      \* the queue's flag
    batch_size,  \* std::atomic<std::size_t> batch_size
    producer,    \* where each producer is in enqueue, with what
    worker,      \* where each worker is in worker_loop
    batch,       \* the batch of each worker
    limit,       \* current_batch_size of each worker
    sent,        \* the number of outputs that have got each worker's batch
    out,         \* what the hub (output 0) and the sinks (1, 2...) were given
    accepted,    \* telemetry_events_accepted_total
    dropped,     \* telemetry_events_dropped_total
    sampled,     \* telemetry_events_sampled_total
    control,     \* where the controlling thread is in start and stop
    fate,        \* history: what enqueue returned for each event, and why
    evicted,     \* history: the events a DropOldest push threw away
    racing       \* history: the events still to be pushed when stop began

queueVars == <<queue, closed>>
counters == <<accepted, dropped, sampled>>
workerVars == <<worker, batch, limit, sent, out>>
controlVars == <<control, racing>>
vars == <<running, queueVars, batch_size, producer, workerVars, counters, controlVars, fate, evicted>>

Outputs == 0 .. NumSinks
MaxSize == MaxSizeOf(QueueSize)
EventsIn(s) == {s[i] : i \in DOMAIN s}

ProducerSteps ==
    {"idle", "count_sampled", "count_limited", "push", "count_accepted", "count_dropped"}
WorkerSteps ==
    {"unborn", "loop", "pop", "fill", "publish", "drain", "publish_drained", "publish_last", "done"}
ControlSteps == {"created", "started", "stopping", "joining", "stopping_sinks", "stopped"}
Fates == {"new", "pending", "refused", "sampled", "limited", "accepted", "dropped"}

\* evicting: the push threw away the oldest event, which has to be counted.
Calling(step, e, evicting) == [step |-> step, event |-> e, evicting |-> evicting]
Idle == Calling("idle", NoEvent, FALSE)

TypeOK ==
    /\ running \in BOOLEAN /\ closed \in BOOLEAN
    /\ queue \in Seq(Events) /\ Len(queue) <= MaxSize
    /\ batch_size \in Nat
    /\ producer \in [Producers ->
           [step : ProducerSteps, event : Events \cup {NoEvent}, evicting : BOOLEAN]]
    /\ worker \in [Workers -> WorkerSteps]
    /\ batch \in [Workers -> Seq(Events)]
    /\ limit \in [Workers -> Nat] /\ sent \in [Workers -> Outputs]
    /\ out \in [Outputs -> Seq(Events)]
    /\ accepted \in Nat /\ dropped \in Nat /\ sampled \in Nat
    /\ control \in ControlSteps
    /\ fate \in [Events -> Fates] /\ evicted \subseteq Events /\ racing \subseteq Events

Init ==
    /\ running = FALSE
    /\ queue = <<>> /\ closed = FALSE
    /\ batch_size = BatchSize
    /\ producer = [p \in Producers |-> Idle]
    /\ worker = [w \in Workers |-> "unborn"]
    /\ batch = [w \in Workers |-> <<>>]
    /\ limit = [w \in Workers |-> 0]
    /\ sent = [w \in Workers |-> 0]
    /\ out = [o \in Outputs |-> <<>>]
    /\ accepted = 0 /\ dropped = 0 /\ sampled = 0
    /\ control = "created"
    /\ fate = [e \in Events |-> "new"]
    /\ evicted = {} /\ racing = {}

-----------------------------------------------------------------------------
(* enqueue, called by producer p.                                          *)

At(p, step) == producer[p].step = step

Goto(p, step, e, evicting) == producer' = [producer EXCEPT ![p] = Calling(step, e, evicting)]

Return(p, e, f) ==
    /\ producer' = [producer EXCEPT ![p] = Idle]
    /\ fate' = [fate EXCEPT ![e] = f]

\* A pipeline that does not run refuses, and counts nothing.
EnqueueRefused(p, e) ==
    /\ At(p, "idle") /\ fate[e] = "new"
    /\ ~running
    /\ Return(p, e, "refused")
    /\ UNCHANGED <<running, queueVars, batch_size, workerVars, counters, controlVars, evicted>>

\* sampled_in and within_rate_limit may send the event either way.
EnqueueBegins(p, e) ==
    /\ At(p, "idle") /\ fate[e] = "new"
    /\ running
    /\ \E step \in {"count_sampled", "count_limited", "push"} : Goto(p, step, e, FALSE)
    /\ fate' = [fate EXCEPT ![e] = "pending"]
    /\ UNCHANGED <<running, queueVars, batch_size, workerVars, counters, controlVars, evicted>>

\* sampled_in() is false.
SampledOut(p) ==
    /\ At(p, "count_sampled")
    /\ sampled' = sampled + 1
    /\ Return(p, producer[p].event, "sampled")
    /\ UNCHANGED <<running, queueVars, batch_size, workerVars, accepted, dropped, controlVars, evicted>>

RateLimited_Uncounted(p) ==
    /\ At(p, "count_limited")
    /\ Return(p, producer[p].event, "limited")
    /\ UNCHANGED <<running, queueVars, batch_size, workerVars, counters, controlVars, evicted>>

\* within_rate_limit() is false.
RateLimited(p) ==
    /\ At(p, "count_limited")
    /\ dropped' = dropped + 1
    /\ Return(p, producer[p].event, "limited")
    /\ UNCHANGED <<running, queueVars, batch_size, workerVars, accepted, sampled, controlVars, evicted>>

\* queue.try_push: counted afterwards, when others have already seen the queue.
TryPush(p) ==
    LET e == producer[p].event
        r == PushResult(queue, closed, Policy, MaxSize, e)
        evicts == r.ok /\ r.dropped = 1
    IN  /\ At(p, "push")
        /\ ~PushBlocks(queue, closed, Policy, MaxSize)
        /\ queue' = r.items
        /\ evicted' = IF evicts THEN evicted \cup {Head(queue)} ELSE evicted
        /\ Goto(p, IF r.ok THEN "count_accepted" ELSE "count_dropped", e, evicts)
        /\ UNCHANGED <<running, closed, batch_size, workerVars, counters, controlVars, fate>>

\* accepted_counter; a push that evicted has still to count the event it lost.
CountAccepted(p) ==
    LET e == producer[p].event
    IN  /\ At(p, "count_accepted")
        /\ accepted' = accepted + 1
        /\ \/ producer[p].evicting /\ Goto(p, "count_dropped", e, TRUE) /\ UNCHANGED fate
           \/ ~producer[p].evicting /\ Return(p, e, "accepted")
        /\ UNCHANGED <<running, queueVars, batch_size, workerVars, dropped, sampled, controlVars, evicted>>

CountDropped(p) ==
    /\ At(p, "count_dropped")
    /\ dropped' = dropped + 1
    /\ Return(p, producer[p].event, IF producer[p].evicting THEN "accepted" ELSE "dropped")
    /\ UNCHANGED <<running, queueVars, batch_size, workerVars, accepted, sampled, controlVars, evicted>>

Enqueue(p) ==
    \/ SampledOut(p) \/ RateLimited(p) \/ TryPush(p)
    \/ CountAccepted(p) \/ CountDropped(p)

-----------------------------------------------------------------------------
(* worker_loop and publish_batch, run by worker w.                         *)

WorkerUnchanged == <<running, closed, batch_size, producer, counters, controlVars, fate, evicted>>

WorkerGoto(w, from, to) ==
    /\ worker[w] = from
    /\ worker' = [worker EXCEPT ![w] = to]

TakeFront_Reversed(w) ==
    /\ queue # <<>>
    /\ queue' = Tail(queue)
    /\ batch' = [batch EXCEPT ![w] = <<Head(queue)>> \o @]

\* The worker moves the front of the queue to the end of its batch.
TakeFront(w) ==
    /\ queue # <<>>
    /\ queue' = Tail(queue)
    /\ batch' = [batch EXCEPT ![w] = Append(@, Head(queue))]

Loop(w) ==
    /\ running
    /\ WorkerGoto(w, "loop", "pop")
    /\ limit' = [limit EXCEPT ![w] = batch_size]
    /\ UNCHANGED <<WorkerUnchanged, queue, batch, sent, out>>

LeaveLoop_NoDrain(w) ==
    /\ ~running
    /\ WorkerGoto(w, "loop", "done")
    /\ UNCHANGED <<WorkerUnchanged, queue, batch, limit, sent, out>>

LeaveLoop(w) ==
    /\ ~running
    /\ WorkerGoto(w, "loop", "drain")
    /\ UNCHANGED <<WorkerUnchanged, queue, batch, limit, sent, out>>

\* pop_for(current_flush): the first event of a batch...
PopFirst(w) ==
    /\ WorkerGoto(w, "pop", "fill")
    /\ TakeFront(w)
    /\ UNCHANGED <<WorkerUnchanged, limit, sent, out>>

\* ... or none before the flush interval is over, or on a closed queue.
PopNothing(w) ==
    /\ queue = <<>>
    /\ WorkerGoto(w, "pop", "loop")
    /\ UNCHANGED <<WorkerUnchanged, queue, batch, limit, sent, out>>

\* As if the conditions of the inner loop were swapped: pop, then look at the room.
Fill_Swapped(w) ==
    /\ WorkerGoto(w, "fill", "fill")
    /\ queue # <<>> /\ queue' = Tail(queue)
    /\ batch' = [batch EXCEPT ![w] = IF Len(@) < limit[w] THEN Append(@, Head(queue)) ELSE @]
    /\ UNCHANGED <<WorkerUnchanged, limit, sent, out>>

Fill_OffByOne(w) ==
    /\ WorkerGoto(w, "fill", "fill")
    /\ Len(batch[w]) <= limit[w]
    /\ TakeFront(w)
    /\ UNCHANGED <<WorkerUnchanged, limit, sent, out>>

\* pop_for(0): more events, as long as there are some and the batch has room.
Fill(w) ==
    /\ WorkerGoto(w, "fill", "fill")
    /\ Len(batch[w]) < limit[w]
    /\ TakeFront(w)
    /\ UNCHANGED <<WorkerUnchanged, limit, sent, out>>

Filled(w) ==
    /\ WorkerGoto(w, "fill", "publish")
    /\ Len(batch[w]) >= limit[w] \/ queue = <<>>
    /\ UNCHANGED <<WorkerUnchanged, queue, batch, limit, sent, out>>

\* After the loop: whatever is left in the queue, in batches.
Drain(w) ==
    LET full == Len(batch[w]) + 1 >= batch_size
    IN  /\ WorkerGoto(w, "drain", IF full THEN "publish_drained" ELSE "drain")
        /\ TakeFront(w)
        /\ UNCHANGED <<WorkerUnchanged, limit, sent, out>>

\* As if the last, incomplete batch were not published.
Drained_SkipsLast(w) ==
    /\ queue = <<>>
    /\ WorkerGoto(w, "drain", "done")
    /\ UNCHANGED <<WorkerUnchanged, queue, batch, limit, sent, out>>

Drained(w) ==
    /\ queue = <<>>
    /\ WorkerGoto(w, "drain", IF batch[w] = <<>> THEN "done" ELSE "publish_last")
    /\ UNCHANGED <<WorkerUnchanged, queue, batch, limit, sent, out>>

ClearBatch_OnlyInLoop(w) ==
    batch' = [batch EXCEPT ![w] = IF worker[w] = "publish_drained" THEN @ ELSE <<>>]

ClearBatch(w) == batch' = [batch EXCEPT ![w] = <<>>]

\* publish_batch gives the batch to the hub, then to one sink after the
\* other; then the worker clears it and goes on.
HandOver(w) ==
    /\ worker[w] \in {"publish", "publish_drained", "publish_last"}
    /\ out' = [out EXCEPT ![sent[w]] = @ \o batch[w]]
    /\ \/ /\ sent[w] < NumSinks
          /\ sent' = [sent EXCEPT ![w] = @ + 1]
          /\ UNCHANGED <<worker, batch>>
       \/ /\ sent[w] = NumSinks
          /\ sent' = [sent EXCEPT ![w] = 0]
          /\ ClearBatch(w)
          /\ worker' = [worker EXCEPT ![w] =
                 CASE @ = "publish" -> "loop"
                   [] @ = "publish_drained" -> "drain"
                   [] @ = "publish_last" -> "done"]
    /\ UNCHANGED <<WorkerUnchanged, queue, limit>>

Work(w) ==
    \/ Loop(w) \/ LeaveLoop(w) \/ PopFirst(w) \/ PopNothing(w) \/ Fill(w) \/ Filled(w)
    \/ Drain(w) \/ Drained(w) \/ HandOver(w)

-----------------------------------------------------------------------------
(* The thread that owns the pipeline.                                      *)

ControlUnchanged ==
    <<queue, batch_size, producer, batch, limit, sent, out, counters, fate, evicted>>

Control(from, to) == control \in from /\ control' = to

\* running.exchange(true), then the sinks and the workers are started.  stop
\* leaves no worker behind; a pipeline started again has a closed queue.
Start ==
    /\ Control({"created", "stopped"}, "started")
    /\ running' = TRUE
    /\ worker' = [w \in Workers |-> "loop"]
    /\ UNCHANGED <<ControlUnchanged, closed, racing>>

\* The producers that have read `running' and still have to push.
Pushing == {p \in Producers : At(p, "push")}

RacingNow == racing' = {producer[p].event : p \in Pushing}

StopBegins_KeepsRunning ==
    /\ Control({"started"}, "stopping")
    /\ RacingNow
    /\ UNCHANGED <<ControlUnchanged, running, closed, worker>>

\* stop: running.exchange(false)...
StopBegins ==
    /\ Control({"started"}, "stopping")
    /\ running' = FALSE
    /\ RacingNow
    /\ UNCHANGED <<ControlUnchanged, closed, worker>>

\* ... queue.close()...
CloseQueue ==
    /\ Control({"stopping"}, "joining")
    /\ closed' = TRUE
    /\ UNCHANGED <<ControlUnchanged, running, worker, racing>>

JoinWorkers_Forgotten ==
    /\ Control({"joining"}, "stopping_sinks")
    /\ UNCHANGED <<ControlUnchanged, running, closed, worker, racing>>

\* ... join every worker...
JoinWorkers ==
    /\ \A w \in Workers : worker[w] = "done"
    /\ Control({"joining"}, "stopping_sinks")
    /\ UNCHANGED <<ControlUnchanged, running, closed, worker, racing>>

\* ... and stop the sinks, which write what they were given.
StopSinks ==
    /\ Control({"stopping_sinks"}, "stopped")
    /\ UNCHANGED <<ControlUnchanged, running, closed, worker, racing>>

Stop == StopBegins \/ CloseQueue \/ JoinWorkers \/ StopSinks

UpdateRuntimeConfig(b) ==
    /\ batch_size' = IF b = 0 THEN 1 ELSE b
    /\ UNCHANGED <<running, queueVars, producer, workerVars, counters, controlVars, fate, evicted>>

-----------------------------------------------------------------------------
Next ==
    \/ \E p \in Producers, e \in Events : EnqueueRefused(p, e) \/ EnqueueBegins(p, e)
    \/ \E p \in Producers : Enqueue(p)
    \/ \E w \in Workers : Work(w)
    \/ Start \/ Stop
    \/ \E b \in RuntimeBatchSizes : UpdateRuntimeConfig(b)

SafeSpec == Init /\ [][Next]_vars

\* The operating system runs every thread that can run, and a stop that has
\* begun goes on.  Nobody has to call enqueue, start, stop or reconfigure.
Fairness ==
    /\ \A p \in Producers : WF_vars(Enqueue(p))
    /\ \A w \in Workers : WF_vars(Work(w))
    /\ WF_vars(CloseQueue \/ JoinWorkers \/ StopSinks)

Spec == SafeSpec /\ Fairness

-----------------------------------------------------------------------------
(* The events whose push succeeded, whether or not enqueue has returned.   *)
Admitted ==
    {e \in Events : fate[e] = "accepted"} \cup
    {producer[p].event : p \in
        {q \in Producers : \/ At(q, "count_accepted")
                           \/ At(q, "count_dropped") /\ producer[q].evicting}}

\* The events output o has still to be given.
InFlight(o) ==
    EventsIn(queue) \cup UNION {EventsIn(batch[w]) : w \in {x \in Workers : sent[x] <= o}}

(* An admitted event is in the queue, in a batch, evicted or handed over:  *)
(* no step of a producer, a worker or stop loses one, or makes one up.     *)
NothingLost == \A o \in Outputs : Admitted = evicted \cup InFlight(o) \cup EventsIn(out[o])

(* No output is given an event twice, or one that was counted as dropped:  *)
(* a batch is cleared on every path on which it has been published.        *)
NoDuplicates ==
    \A o \in Outputs :
        /\ IsInjective(out[o])
        /\ EventsIn(out[o]) \cap (evicted \cup InFlight(o)) = {}
        /\ evicted \cap InFlight(o) = {}

(* The counters agree with what enqueue told its callers, up to the calls  *)
(* that have pushed and not counted yet: every call on a running pipeline  *)
(* is counted once, and an eviction once more.                             *)
CountersAgree ==
    LET Count(P(_)) == Cardinality({p \in Producers : P(p)})
        Told(F) == Cardinality({e \in Events : fate[e] \in F})
    IN  /\ sampled = Told({"sampled"})
        /\ accepted + Count(LAMBDA p : At(p, "count_accepted")) = Cardinality(Admitted)
        /\ dropped + Count(LAMBDA p : producer[p].evicting)
                = Told({"limited", "dropped"}) + Cardinality(evicted)

(* A batch holds no more than the batch size read when it was begun (one   *)
(* event if that is 0), also while update_runtime_config changes it.       *)
BatchBounded ==
    \A w \in Workers :
        worker[w] \in {"fill", "publish"} =>
            Len(batch[w]) \in 1 .. (IF limit[w] = 0 THEN 1 ELSE limit[w])

(* When stop goes on to the sinks, every event that was accepted and not   *)
(* evicted has been given to the hub and to every sink, except that events *)
(* whose enqueue raced the beginning of stop may have come too late.       *)
StopDrains ==
    control \in {"stopping_sinks", "stopped"} =>
        \A o \in Outputs : Admitted \ evicted \subseteq EventsIn(out[o]) \cup racing

\* What output o was given and will be given, in order, when w is the only worker.
Line(o, w) == out[o] \o (IF sent[w] <= o THEN batch[w] ELSE <<>>) \o queue

\* The step leaves every event of the line to output o in its place, except
\* one that it evicts, and puts new ones only at the end.
KeepsOrder(o, w) ==
    LET line == Line(o, w)
    IN  \/ IsPrefix(line, Line(o, w)')
        \/ \E i \in DOMAIN line : line[i] \in evicted' /\ IsPrefix(RemoveAt(line, i), Line(o, w)')

(* With one worker every output gets the events in the order of their      *)
(* pushes, without those that DropOldest evicts.                           *)
OneWorkerKeepsOrder ==
    [][\A w \in Workers, o \in Outputs : Workers = {w} => KeepsOrder(o, w)]_vars

(* A stop that has begun returns: the workers find the flag and drain.     *)
StopReturns == control = "stopping" ~> control = "stopped"

(* An accepted event reaches every output, unless it is evicted or was    *)
(* pushed so late that the workers had left: while the pipeline runs, an   *)
(* event never stays in the queue or in a batch for want of other events.  *)
AcceptedIsDelivered ==
    \A e \in Events :
        fate[e] = "accepted" ~>
            \/ e \in evicted
            \/ \A o \in Outputs : e \in EventsIn(out[o])
            \/ control = "stopped" /\ e \in racing \cap EventsIn(queue)

-----------------------------------------------------------------------------
(* What the outputs see of the pipeline: see Delivery.                     *)

Phase ==
    CASE control = "started" -> "running"
      [] control \in {"stopping", "joining"} -> "stopping"
      [] control \in {"created", "stopping_sinks", "stopped"} -> "off"

\* How often output o was given event e.
Times(o, e) == Cardinality({i \in DOMAIN out[o] : out[o][i] = e})

Abs == INSTANCE Delivery WITH
    phase <- Phase,
    pending <- [o \in Outputs |-> InFlight(o)],
    delivered <- [o \in Outputs |-> [e \in Events |-> Times(o, e)]],
    lost <- evicted,
    late <- racing

(* The pipeline delivers an admitted event to each output once or evicts   *)
(* it before any got it, hands nothing over while it is off, and does not  *)
(* go off before all but the late events are delivered.                    *)
ImplementsDelivery == Abs!Spec

=============================================================================
