# A verification project for the telemetry pipeline

These modules describe the concurrent core of the repository, a C++17 telemetry
service: threads of an HTTP server enqueue events, worker threads batch them,
and every batch goes to the subscribers of a live stream and to a set of sinks
(standard output, files, HTTP, sockets), each with a queue, a thread and retries
of its own. `*.tla` are the modules, `MC*.tla` with `MC*.cfg` the instances TLC
checks, `*Proofs.tla` the proofs TLAPS checks, `PROJECT.json` the index: for each
definition the source lines it models, for each property the run that checks it
and the mistake that would break it.

Paths below are relative to the root of the repository.

## 1. Inventory

| component | state | operations | touched by |
|---|---|---|---|
| `BoundedQueue<T>` (include/telemetry_queue.hpp) | deque, `closed`, one mutex, `not_empty`, `not_full` | `try_push` (DropNewest, DropOldest, Block), `pop`, `pop_for`, `close`, `size`, `empty` | the pipeline, each sink, each live subscription |
| `TelemetryPipeline` (src/telemetry_pipeline.cpp) | `running`, queue, `batch_size` and three more runtime values, rate-limit atomics, counters, worker threads, sinks, hub | `start`, `stop`, `enqueue`, `flush`, `update_runtime_config`, `add_sink`, `worker_loop`, `publish_batch` | server threads, alert engine, diagnostics (enqueue); workers; main |
| `within_rate_limit` (same file) | `token_second`, `token_count` | one call per event | all threads that enqueue |
| `update_sink_metrics` (same file) | `last_sink_dropped`, an exported counter | one call per batch | all workers |
| `SinkWorker` (src/telemetry_sinks.cpp) | queue, `running`, thread, three statistics | `start`, `stop`, `submit`, `flush`, `write_with_retry` | pipeline workers, its own thread, main |
| sinks (same file) | streams, sockets, an HTTP client | `write`, `flush` | one `SinkWorker` each |
| `TelemetryStreamHub` (src/telemetry_pipeline.cpp) | weak subscriptions under a mutex; a queue and `active` per subscription | `subscribe`, `publish`, `pop_for`, `close` | workers, threads serving /telemetry/live |
| metrics (src/telemetry_metrics.cpp) | atomics, a sum under a mutex, a window of samples, the registry | `increment`, `set`, `observe`, `snapshot`, `get_or_create` | everybody |
| `AlertEngine` (src/telemetry_alerting.cpp) | rules, notifiers, last firing per rule name, thread | `add_rule`, `add_notifier`, `start`, `stop`, `evaluate_once` | its thread, main |
| `ConfigManager` (src/telemetry_config.cpp) | current configuration, time of the file, callbacks, thread | `start`, `stop`, `on_reload`, parsing and validation | its thread, main |
| diagnostics (src/telemetry_diagnostics.cpp) | one global reporter | reports and the terminate handler enqueue events | any thread |
| HTTP application (src/main.cpp, src/telemetry_monitoring.cpp, src/telemetry_store.cpp) | the store of readings | the routes, and the shutdown order | server threads, main |
| events, serializers, exporter | none | conversions | workers, server threads |

How they interact. A server thread calls `enqueue`, which reads `running`,
samples, asks the rate limiter, pushes to the queue under the configured policy
and counts the outcome. A worker waits in `pop_for` for the first event of a
batch, fills it without waiting, and calls `publish_batch`: the hub first, then
`submit` on every sink, then the drop counter. Each sink's thread pops a payload
and writes it, up to `max_attempts` times with a growing delay. `stop` clears
`running`, closes the queue, joins the workers (which drain what is left) and
stops the sinks (which write what is left, then flush). main calls it only after
`listen` has returned (src/main.cpp:160-164), when no request is handled any more;
the alert engine and the configuration manager are stopped before. Nothing calls
`svr.stop()` and there is no signal handler, so a process that is told to terminate
ends without any of this. Nothing in the class itself asks for the callers of
`enqueue` to be gone, and the model does not assume it.

A handler of POST /telemetry adds to the store, to counters and gauges of the
registry and, through its timer, to a summary, and enqueues an event; other handlers
read all of these meanwhile. The thread of the alert engine reads the registry under
a mutex it shares with whoever calls `evaluate_once`. The thread of the configuration
manager reads the file and calls back into the pipeline.

What is hard. Two condition variables with `notify_one` under three mixed
policies, timeouts and spurious wakeups. A flag read long before the push it
guards. Counters incremented after the event is visible to the workers. Drains at
shutdown while others still push. Retries of writes that may have succeeded.
Algorithms over two atomics without a lock. The list, line by line, is "hazards"
in `PROJECT.json`; those that no property covers yet say why.

What makes each component correct:

- queue: no lost wakeup and no mutual wait, `close` releases everybody, every
  call atomic and first-in first-out, never above the capacity;
- pipeline: no admitted event is lost, duplicated or miscounted; `stop` returns,
  having delivered all but what raced it; a worker never holds more than a batch; one worker
  keeps the order;
- rate limiter: how many events a second can really admit;
- drop counter: never short once the workers are idle, never ahead of the drops;
- sink: every admitted payload ends in one place and in the statistics, payloads
  arrive in the order of their pushes, waits stay within the bounds of the backoff;
  `stop` returns whatever the sink does;
- hub: a connected client misses only what it was too slow for, in the order all
  others see, and holds up no worker;
- histogram: every observation ends in one bucket, the count and the sum; a bucket
  has what its label `le` says; a snapshot lies between what was observed before and
  after it;
- summary: samples leave the window when they outlive the retention, give or take
  what an observer may be late;
- gauges, counters and the store: they agree with the requests at every step, a
  refused request leaves no trace but its counters, neither gauge of a sensor is left
  at an old reading;
- alerts: a rule waits for its own cooldown after the last alert of its name, and the
  alerts of a name come again and again while a condition lasts;
- configuration: the file's last good settings come into force whatever it went
  through, and none do after `stop`.

## 2. Modules

| module | models | uses |
|---|---|---|
| `QueueOps` | what one completed queue call does to a sequence | |
| `QueueInterface` | calls and results of the queue, the assumptions on its constants | `QueueOps` |
| `FifoQueue` | abstract: every call takes effect in one step, no call that could is left waiting | `QueueInterface` |
| `BoundedQueue` | the class: mutex, condition variables, deadlines, spurious wakeups, the three steps of `close` | `QueueInterface`; implements `FifoQueue` |
| `BoundedQueueProofs` | six theorems about it | `BoundedQueue` |
| `Delivery` | abstract: what the pipeline owes to its outputs and when a stop may end | |
| `Pipeline` | `enqueue`, `worker_loop`, `publish_batch`, `start`, `stop`, `update_runtime_config` | `QueueOps`; implements `Delivery` |
| `PipelineProofs` | eight theorems about it, one that it implements `Delivery` | `Pipeline` |
| `StreamHub` | `subscribe`, `publish`, `pop_for` and `close` of a subscription, the route /telemetry/live | `QueueOps` |
| `StreamHubProofs` | four theorems about it | `StreamHub` |
| `SinkWorker` | `submit`, the writer thread, `write_with_retry`, `start`, `stop`, `flush` | `QueueOps` |
| `SinkWorkerProofs` | five theorems about it | `SinkWorker` |
| `RateLimiter` | `within_rate_limit`, access by access | |
| `Sums` | the sum of a function over a set, as a cardinality | |
| `SinkMetrics` | `update_sink_metrics`, access by access | `Sums` |
| `Histogram` | `observe` and `snapshot` of a histogram, access by access | `Sums` |
| `AtomicsProofs` | two theorems about the rate limiter, one about the counter of drops, two about the histogram | `RateLimiter`, `SinkMetrics`, `Histogram` |
| `Summary` | `observe` and `snapshot` of a summary, the clock outside the lock | |
| `Ingest` | the handler of POST /telemetry with all it shares, /stats, /metrics | `Summary` |
| `IngestProofs` | four theorems about it | `Ingest` |
| `AlertEngine` | `evaluate_once` in any thread, the loop of the engine, `start`, `stop`, `add_rule`, `add_notifier` | |
| `AlertProofs` | one theorem about it | `AlertEngine` |
| `ConfigReload` | the watcher of the configuration file, `from_file`, `start`, `stop` | |
| `ConfigProofs` | one theorem about it | `ConfigReload` |

Correspondence of state and actions.

*BoundedQueue.* A critical section is one action: from the lock to the return or
to the wait, which releases the mutex and joins the waiters atomically. `not_empty`
and `not_full` are the sets of blocked threads; `notify_one` moves some member to
`popWoken` or `pushWoken`, threads that have left the wait and have still to get
the mutex. Any other thread may be served before them, which is where wakeups get
lost. `Expire` is the deadline of `wait_for`, `SpuriousWake` the wakeup the
standard allows. `close` notifies after unlocking, so it has three actions.

*Pipeline.* Calls of the queue are single steps here, which is what
`QueueLinearizable` proves. Everything between two accesses to shared state is one
action: `EnqueueBegins` reads `running` and is admitted or not, `TryPush` pushes,
`CountAccepted` and `CountDropped` count. The draw of `sampled_in` and the answer of
`within_rate_limit` are left open. `worker` is the program counter of
`worker_loop`; the outputs are numbered, 0 is the hub and 1, 2... the sinks, and
`HandOver` gives a batch to one output at a time. `stop` may begin while any number
of calls of `enqueue` are under way, and `start` may follow it: the queue is then
still closed, and what raced the stop is still in it. `fate`, `evicted` and `racing`
are history variables: what the caller was told, what DropOldest threw away, and
what had still to be pushed when the last stop began.

*Delivery.* An admitted event is owed to every output, in `pending`. `Deliver` pays
some of what is owed, `Admit` may throw away one event no output has got, and
`EndStop` needs all paid but the events in `late`. `Pipeline` implements it with
`pending` as the events in the queue and in the batches not yet handed over, `late`
as `racing`, and `phase` "off" from the moment the workers are joined: what is
handed over later, or admitted while the queue is closed, would be a step `Delivery`
does not have.

*StreamHub.* The hub's mutex is held from `Begin` to `End` of a publish, so
`HubFree` guards `Begin` and `Subscribe`. A subscription is named by its client.
`Expired` says that the connection, its owner, has let go of it; `Lock` takes a
pointer, and between it and `Push` the client may close the subscription and let
go. A payload is named by its rank in the order of the mutex. `Leave` is all the
reasons for which the loop of `write_content_chunked` (include/httplib.h:7310) stops
calling the provider; `Close` is the releaser, which the destructor of the response
calls, and `Release` the end of that destructor.

*SinkWorker.* `step` is the program counter of the sink's thread. The sink itself
is outside: `write` may deliver and still say it failed. `received` is what the
other end has got. `rank` is a history variable: as which of the successful pushes a
payload came to the queue, which is the order `ReceivedInOrder` holds `received` to.
Without it a thread that took the newest payload first would go unnoticed.

*RateLimiter, SinkMetrics.* Every load, store, exchange and addition is an action.
`Tick` is the system clock. `token_count` is kept at most `Limit + 1`, because the
code only compares it with the limit.

Names in `SinkMetrics` and `Histogram` carry a prefix where they would otherwise be
`RateLimiter`'s: one module holds the proofs about all three.

*Histogram.* A bucket is named by its upper boundary. `Observe` is the search and
the addition to the bucket, `Count` and `Sum` the two that follow; the reader takes
the count, the sum and then bucket by bucket. Any observer may do any number of
steps between two of these. `CumulativeCount(u)` is the number exported with `le = u`.
`BucketsAddUp` leaves open to which side of a boundary a value belongs that equals it;
`BucketsAreLe` is what the label says, and is not kept (see 4).

*Summary.* A sample is its timestamp. `ReadClock` is the call of `steady_clock::now()`
in `observe`, `AddSample` what happens under the lock: another observer may come in
between, so that `samples` is not sorted. `FirstValid` is what a binary search over
such a sequence may return: any place with a sample that is too old just before it
and one that is not just after it.

*Ingest.* One program counter per server thread, one step per access to something
shared. `Increment` and `Decrement` are the loops around `compare_exchange_weak`,
which may fail without a reason. A request that does not parse goes from "parse" to
"log" as the exception does. The `Summary` of the request timer is instantiated as
`Latency` and shares its actions: the destructor of the timer is `Latency!ReadClock`
and `Latency!AddSample`. `/stats` takes two locks one after the other, `Average` and
`Size`. `last_set` has the two gauges of a sensor, temperature and humidity, which a
handler sets one after the other; another may come between.

*AlertEngine.* `eval` is where each thread is in `evaluate_once`; `owner` holds the
mutex, over the calls of the notifiers too. Clock readings are kept as ages up to
`Forever`: `last_fired[n]` is the time since the reading that `last_fired` holds for
the name, `late` the time since the evaluation read the clock. A rule
is a record of its name and its own cooldown: `last_fired` is keyed by the name, and
`Silenced` compares it with the cooldown of the rule at hand. `gap[i]` is the age the
last alert of its name had when rule i last raised one.

*ConfigReload.* One action per call into the file system, because the file may be
changed between any two: the test for existence, the modification time, the opening.
An exception leads to `Caught`, the catch-all of the loop. A change may leave the
modification time as it was, as clocks are coarse; `distinct` remembers whether the
last one did.

A definition named `Op_Something` is `Op` with a plausible mistake in it. No
action uses it; "mutants" in `PROJECT.json` pairs it with the property that
notices when it takes the place of `Op`.

## 3. What TLC checks

| run | instance | shows |
|---|---|---|
| `queue` | 2 pushers, 2 poppers, a closer, 1 value, capacity 2, all policies mixed | no lost wakeup, no sleeper after close, no mutual wait, refinement of `FifoQueue` with its fairness |
| `pipeline_safety` | 2 producers, 2 workers, 3 events, DropOldest, 1 place, batch 2 changed to 0, 1 sink, stop and start at any time | conservation, no duplicates, counters, batch bound, drain, refinement of `Delivery` |
| `pipeline_liveness` | 2 producers, 1 worker, 3 events, Block, requested capacity 0 | `stop` returns, accepted events are delivered or raced the stop, one worker keeps the order |
| `stream_hub` | 2 workers, 2 clients, 3 payloads, 1 place per subscription | a connected client misses only what it was too slow for; one order for all; expired subscriptions are erased; no client holds up a worker |
| `sink_safety` | 2 submitters, 3 payloads, each policy, 2 places, 2 attempts | one place per payload, statistics, order of arrival, backoff within its bounds, `stop` leaves nothing behind |
| `sink_liveness` | 2 submitters, 2 payloads, each policy, 1 place, 2 attempts | `stop` returns, accepted payloads are settled |
| `atomics` | 2 callers, limit 2, clock up to second 4; 2 workers, 2 batches, 2 sinks; 3 observers, values below, at and above 2 boundaries, 3 observations | how far the limit can be exceeded; no drop missing once the workers are idle; buckets, count and sum add up; snapshots between before and after |
| `sink_metrics_over` | 2 workers, 1 sink | finding |
| `histogram_le` | 2 observers, a value equal to a boundary | finding |
| `ingest` | 2 handlers, 2 readings of one sensor, 1 bad body, clock up to 4 | gauge, counters, store and answers agree; neither gauge of the sensor stays at an old reading; the window of the timers |
| `alerts` | the engine and 1 other caller, 2 rules of one name with cooldowns 3 and 2, evaluations of up to 1 | a rule keeps its own cooldown after an alert of its name; a lasting alert comes again and again |
| `config_reload` | 3 settings, 3 modification times | convergence to the file, silence after `stop` |

Bounds and why they are enough. Two pushers and two poppers are the least with which
one may be blocked, woken, and overtaken by another of its kind; two places are the
least with which one wakeup can serve the wrong number of items. The queue run lets
every thread call for ever, so no call counter bounds it; with its one value, TLC sees
how many items there are and not which comes first: that the queue is first-in
first-out is shown by `QueueLinearizable`, for all values, and by no run. In
`Pipeline` each event is enqueued once and `Events` is the only bound: three events
fill the queue, evict, leave an incomplete batch, and let one race a stop. Two workers
are the least that overlap in `publish_batch`. In `pipeline_liveness` there are no
sinks: the only output is the hub, and a `stop` that waits for a sink is the business
of `sink_liveness`. `sink_safety` has two places, as order cannot be seen in a queue
of one, and three payloads, so that one is in hand while the two places are taken. Two
attempts let a payload be retried after it was received; the initial and the maximal
delay are such that doubling exceeds the maximum. That the delay doubles is in the
action and is not claimed as a property, but that it stays within its bounds.
`MCAtomics` holds three components that share no variable; in a behaviour one of them
moves and the others stay as they began, which loses nothing, as each property is
about one of them. `LastSecond` bounds the clock of `RateLimiter`; the bound it checks
is met exactly by instances with two and three callers and is not changed by another
second. In `StreamHub` one place lets a client be too slow at the second payload, and
three payloads let it miss one and get the next; two clients are the least with one
that expires before one that stays. `MaxPayloads` bounds the publishes. `MaxBatches`
bounds the batches of `SinkMetrics`. `MaxObservations` bounds a `Histogram`: with
three, one can be before, one during and one after a snapshot. `LastTime` bounds the
clocks of `Summary` and `Ingest`; with a retention of 1 and `MaxLateness` 1, four
units let samples arrive out of order, be searched for wrongly, and be evicted.
`MaxLateness` is a bound on how long a thread may take from reading the clock to the
lock: nothing in the code gives one, and `RetentionIsKept` says what follows for any.
Likewise `MaxDuration`, the longest an evaluation of the alert engine takes.
`CooldownIsKept` is tight: with a bound greater by one, for either of the two
cooldowns, TLC finds a counterexample. `LastTime` in `ConfigReload` bounds how often
the modification time changes; once it is used up, changes go unnoticed, which
`ConvergesToFile` excludes by `distinct`. Symmetry is used for threads and values in
runs without liveness properties; the refinement of `Delivery` in `pipeline_safety` is
a safety property and symmetric in all of them.

Atomics. The code uses relaxed operations for counters and for `running`. The
models take each access as one step in one global order, which is what coherence
gives for a single variable. Where several variables are related the properties are
claimed for sequentially consistent executions only: `SurgeBound`
(`token_second` and `token_count`), `NoDropMissing`, and `SnapshotCovers`, whose last
conjunct needs an observer's addition to its bucket to be seen before the one to the
count. The build the repository ships (an optimised one, by its Dockerfile) gives
this on x86-64, where an atomic addition is a full barrier and loads are not
reordered with loads; on a weaker machine a snapshot could have a count above its
last bucket.

Fairness. Weak fairness of each thread's steps: a thread that can run does, and
the mutex is not withheld from it for ever. In `BoundedQueue`, strong fairness of
`Expire`: the deadline of a `pop_for` is one point in time for all its waits, so
spurious wakeups cannot postpone it. In `Pipeline` and `SinkWorker`, weak
fairness of the steps of a `stop` that has begun, and that a `sink->write` and a
backoff end. In `StreamHub` only a publish that has begun goes on; no client has
to read. In `AlertEngine` an evaluation that has begun ends, notifiers included, the
thread of the engine goes on when it can, and time passes; others need not call
`evaluate_once`, and if they take the mutex from the thread for ever they raise the
alert in its place. In `ConfigReload` the thread goes on. Nothing forces anyone to
call `enqueue`, `submit`, `start`, `stop` or `update_runtime_config` or to change the
file, and no spurious wakeup is owed.

## 4. Findings

- `sink_metrics_over`: with several workers the exchange of
  `last_sink_dropped` may happen in the order opposite to that of the sums, and
  `telemetry_sink_queue_dropped_total` then exceeds the payloads dropped.
  `NoDropMissing` holds: it never stays short.
- `histogram_le`: `upper_bound` (src/telemetry_metrics.cpp:152) puts a value that equals
  a boundary into the bucket after it, so a bucket counts what is strictly below its
  boundary. It is exported with that boundary as `le` (src/telemetry_metrics.cpp:392),
  which in the Prometheus format means less than or equal, and README.md:218 calls the
  answer of `GET /metrics` "a Prometheus-compatible metrics scrape". `BucketsAddUp`
  holds: the disagreement is about values that equal a boundary and no others.

Met on the way, and part of what the models take as given:

- an `enqueue` that races `stop` can leave an accepted event in the queue for ever;
  `StopDrains` and `AcceptedIsDelivered` except exactly these events;
- several callers can admit more than `rate_limit_per_second` in a second;
  `SurgeBound` says how many more;
- `start` after `stop` leaves the queue closed: every later `enqueue` is refused and
  counted as dropped (src/telemetry_pipeline.cpp:168-169, `CountDropped`), though the
  queue itself reports no drop; a batch handed over then reaches closed sinks, which
  `out` counts as given all the same;
- `batch_size` may be lowered while a worker drains: a batch of the drain may then
  exceed it, and `BatchBounded` is about the batches of the loop only;
- `flush`, behind `POST /flush`, flushes the sinks and does not wait for what is
  queued before them; README.md:196 of the repository only says that it "Flushes the
  telemetry pipeline.";
- the search of `evict_locked` runs over samples that need not be sorted; it errs by
  no more than the lateness of the observers (`RetentionHolds`);
- rules of one name silence each other, each for its own cooldown: a rule with the
  longer one may be kept silent for ever by another that goes on firing, which is why
  `AlertIsRaised` speaks of the name; and a rule that fires before `add_notifier`
  starts a cooldown without any notification;
- when the configuration file is away for a moment between two calls of the
  watcher, the defaults come into force and stay until the file gets a modification
  time other than the one seen before: if it returns with that one, they stay.
  `ConvergesToFile` excludes this case by `distinct`;
- the two gauges of a sensor may end at different readings, when two handlers of it
  come between each other's statements; `LastIsRecent` holds for each of them;
- `exceptions_total` is claimed to be no less than the refused requests answered, and
  nothing is claimed of the sum in a snapshot of a histogram, which is read at another
  moment than count and buckets;
- the store and the metrics per sensor only grow.

## 5. What TLAPS proves

`BoundedQueueProofs`, for any finite sets of threads, any values, any subset of
the policies and any capacity (`QueueAssumption`):

- `QueueTyped`, `NoItemIsLost`, `NoPlaceIsLost`, `NoDeadlock`,
  `CloseWakesEverybody`: `SafeSpec => []P` for `TypeOK`, `NoLostItem`,
  `NoLostPlace`, `NoMutualWait` and `NoSleeperAfterClose`;
- `QueueLinearizable`: `SafeSpec` implements `FifoQueue!SafeSpec`.

The inductive invariant is `TypeOK /\ NoLostItem /\ NoLostPlace`. The two counting
conjuncts hold each other up: a pop under contention consumes an item and a woken
popper or leaves both, and `notify_one` turns a sleeper into a woken thread for
each item or place that appears. It has to be a count, as "there is a woken
thread" is not preserved when two items arrive and one woken popper returns. The
refinement maps the detailed calls to the ones of the interface by `SeenAs`: an
expired deadline and the notifications of a close are invisible; a wait is a
stutter.

`PipelineProofs`, for any finite sets of producers and events, any non-empty set
of workers (`ConfigLoader::validate` wants at least one, src/telemetry_config.cpp:160),
any policy, queue, batch sizes and number of sinks (`PipelineAssumption`):
`PipelineTyped`, `BatchesBounded`, `NothingIsLost`, `NothingIsDuplicated` and
`StopDeliversAll`, for `TypeOK`, `BatchBounded`, `NothingLost`, `NoDuplicates` and
`StopDrains`. The invariants build on each other, one section of the module each:

1. `Typed`: types, and each producer in a call holds a pending event that is its
   own. Without the latter two calls could push the same event, and no claim about
   duplicates would be inductive.
2. `PhaseInv`: what `control` says about `running`, `closed` and the workers, and
   what the step of a worker says about its batch (empty in the loop, below the
   limit while it fills, nothing handed over except while it publishes).
3. `StopInv`: from the moment stop has begun, whatever is still to be pushed is in
   `racing` (`RacersKnown`), and from the moment a worker has found the queue empty
   after it, whatever is in the queue is.
4. `KeepInv`: `Distinct` (queue and batches are injective and pairwise disjoint)
   with `NothingLost` and `NoDuplicates`, each needed for the others: a hand-over
   to an output only keeps it free of duplicates because the batch was still in
   flight to that output, and in no other batch.

`StopDeliversAll` combines the last two: the workers left empty batches and a queue
of racing events only, and what is not in flight to an output has been given to it.

`CountersCorrect`, for `CountersAgree`: each counter has as many as there are events
with the fate it counts, up to the calls that have still to count. The invariant is
`CountInv`: the above with `Evicting` (only a call that has still to count remembers
an eviction) and `Counted`, the equations between counters and cardinalities.

`OrderIsKept`, for `OneWorkerKeepsOrder`: with one worker, what an output has been
given is only ever appended to, and in the order of the queue. The line to an output
is what it has got, the batch if it has still to get it, and the queue. A pop moves
an event within the line, because it happens only while nothing of the batch has been
handed over; a hand-over moves the batch; a push appends, and may take away one event
from the part that is still in the queue.

`PipelineDelivers`: `SafeSpec => ImplementsDelivery`. The step of
the pipeline that matters is named in each case: a push is `Admit`, with the event it
evicts; `HandOver` is `Deliver` of the batch to one output; the join of the workers
is `EndStop`, which is `StopInv` again; all else changes nothing `Delivery` sees. Two
lemmas carry it, one for what a step does to the events in flight to each output and
one that `Times`, how often an output was given an event, grows by one for each event
of an injective batch.

`SinkWorkerProofs`, for any submitters, payloads, policy, capacity, attempts and
delays (`SinkAssumption`): `TypeCorrect`, `PayloadsInOnePlace`, `StopSettlesAll`,
`ReceivedOrder` and `StatisticsAgree`, for `SinkTypeOK`, `EachInOnePlace`,
`StopWritesAll`, `ReceivedInOrder` and `StatsAgree`. The invariant is built as in the
pipeline: types with what each step of the thread says about its payload; `Placed` (no
payload is lost, and the queue, the payload in hand and the settled ones are apart);
`Sent` (what the other end got is settled or in hand, and no more often than it was
attempted); `Ranked` (the queue is sorted by rank, what is in hand or has been
received was pushed before all that is still queued, and what was received before what
is in hand, with `received` itself sorted); `Counted`, each statistic as a
cardinality.

`StreamHubProofs`, for any workers, clients, number of payloads and places:
`TypeCorrect`, `SlowClientsMiss`, `OneOrder` and `ExpiredGo`, for `TypeOK`,
`MissesOnlyWhenSlow`, `SameOrder` and `ExpiredAreErased`. `Mutex` (one worker between
`Begin` and `End`) is what the others rest on. `Lines` says that
the queue of a connected client holds the last payloads it was offered, without a gap,
and that before them it has got, in order, all it was offered but those that newer
ones, as many as its queue has places, had followed. `Behind` says that a publish has
left in the hub none of the subscriptions it found expired.

`AtomicsProofs`, for any threads, at least one of them, limit and clock:
`TypeCorrect` and `SurgeIsBounded`, for `TypeOK` and `SurgeBound` of `RateLimiter`.
The invariant follows each second s: before it nothing is admitted; while the clock
shows s, no thread has got to the count yet (`Fresh`), or what is admitted and what
the count leaves room for are at most `Limit` for each clearing there has been or can
be (`Bounded`); after it, each call that is under way may still be admitted (`Over`),
and not all of them if all threads are among them (`Stuck`). A clearing is paid for by
a thread that has not done its exchange yet: twice if it is late, as it sets
`token_second` back and makes the next thread of s clear the count too.

For any workers, sinks and number of batches: `NoDropIsMissing`, for `NoDropMissing`
of `SinkMetrics`. `ExportInv`: what the counter will be when the increments under way
are done is never below the last sum exchanged, in whatever order the sums are
exchanged; and it is not below the drops unless some worker (`Witness`) is going to
load all the sinks there are left, among them the one that dropped last.

For any observers, values and boundaries: `BucketsAreRight` and `SnapshotsCover`, for
`BucketsAddUp` and `SnapshotCovers` of `Histogram`. The upper bound of either is what
was observed up to the boundary (`UpTo`), the lower one what was observed below it:
the proof goes through the latter, which is what the code counts, and `UpToIsMore`.
`AllAdded` has one equation for each bucket, one for the buckets up to each boundary,
and one each for the count and the sum with what the observers have still to add.
`SnapshotGrows` follows the reader: the buckets it has are the lowest ones, what it
has added up lies between what was observed below them before and since, and its count
is no more than that sum with the buckets it has still to read, which is what the
order of its reads is for.

Sums are cardinalities of sets of units (`Sums`) and no folds, because what a fold
computes can only be proved by induction over data. A section of `AtomicsProofs`
proves what is needed of them: a sum over two disjoint sets, over a set without one
member, with one value changed, and with no value less than before. `MCAtomics` lets
TLC compare `SumOf` with the fold of the community modules.

`AlertProofs`: `CooldownHolds`, for any callers, duration and rules, each with any
name and a cooldown of its own (`LongestCooldown` only bounds the ages). Two facts
hold it up: the last notification of a name is younger than its last firing by at most
`MaxDuration` (`NotifiedInTime`), and a thread that has decided to fire still has the
cooldown of its rule behind it when it calls the notifier (`DecidedInTime`), which
needs the mutex (`Exclusive`).

`IngestProofs`, for any threads, requests and clock. `ActiveIsExact` says that a
successful exchange adds to the value it compared with; `LastReadingIsRecent`, for
either gauge, that a reading set by a handler has not been answered, so that it is in
no `before`. `AnswersAreRight`, for `AnswersAgree`: the counters, the store, the log
and the statistics are tied to where each request is, one equation for each
(`CountsAgree`, `StoredOnce`, `AllLogged`, `StatsAgree`), so that a reader between any
two locks of any handlers gets an answer they explain. `RetentionHolds` is about the
timers: samples are out of order by at most `MaxLateness` (`NearlySorted`), from which
`EvictsByAge` bounds what any answer of the search can be wrong by; every step of
`Ingest` is one of `Summary` or leaves it alone.

`ConfigProofs`: `StoppedAppliesNothing`, from the invariant that there is no
thread before `start` and after the join.

Only model-checked: all liveness (fairness and ENABLED are outside the proof
system's reach). `NeverOvercounts` of `SinkMetrics` and `BucketsAreLe` of
`Histogram` are false: they are the findings.

## 6. Not modelled

- The sinks' I/O (an outcome of `write` here), JSON and Protobuf conversion, HTTP
  parsing and TLS, the vendored libraries, which are by far the most of the lines in
  the repository.
- Exceptions nobody catches (one thrown in a worker ends the process), and the
  terminate handler of the diagnostics, after which there is nothing to check.
- Durations: a wait may end at any moment.
- Two threads in `stop` at once, a sink started and stopped by two threads, and
  `add_sink` after `start`: main does none of it.
- Fields of the configuration, their environment variables and validation: one choice
  between good and bad contents. Values in a summary and its quantiles. The text
  formats of the metrics. Routes that read once and change nothing.

The reasons, line by line, are under "components" and "hazards" of `PROJECT.json`.

## 7. Plan

Done, in the order of what every event passes through: the queue with its abstract
specification; the pipeline, with `Delivery`; the sinks; the rate limiter; the drop
counter; the stream hub; the metrics and the handlers that use them; alerts;
configuration.

Every safety property a run checks is proved but those of the two findings, which are
false. What is left for a theorem are facts that liveness rests on and that are safety
properties themselves, such as that a thread which has to go on is never without a step
to take.
