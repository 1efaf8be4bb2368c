------------------------------- MODULE Ingest -------------------------------
(***************************************************************************)
(* The HTTP application (src/main.cpp): server threads handle POST         *)
(* /telemetry, and share the store, the metrics and, through the timer of  *)
(* each request, a Summary; others read /stats and /metrics meanwhile.     *)
(*                                                                         *)
(* Every access to something shared is a step.  The summaries of the       *)
(* values themselves take the steps of the one of the timer and are left   *)
(* out, and so is what the logger does with an event (see Pipeline).       *)
(*                                                                         *)
(* A definition named Op_Something is Op with a mistake in it.  No action  *)
(* uses it: it is there to show that the properties would notice.          *)
(***************************************************************************)
EXTENDS Integers, Sequences, FiniteSets

CONSTANTS
    Handlers,   \* threads of the HTTP server
    Readings,   \* request bodies that parse, pairs <<sensor, values>>
    BadBodies,  \* and those that do not
    NoRequest,
    Retention, MaxLateness, LastTime  \* see Summary

ASSUME IngestAssumption ==
    /\ IsFiniteSet(Handlers)
    /\ Readings \cap BadBodies = {} /\ NoRequest \notin Readings \cup BadBodies
    /\ Retention \in Nat /\ MaxLateness \in Nat /\ LastTime \in Nat

Requests == Readings \cup BadBodies
Sensors == {r[1] : r \in Readings}

\* sensor_temperature_last_celsius and sensor_humidity_last_percent
Gauges == {"temperature", "humidity"}

VARIABLES
    handler,            \* where each thread is, its request and its local old_value
    active_requests,    \* the gauge
    data,               \* the store
    readings_total, readings_by_sensor, exceptions_total,  \* counters
    last_set,           \* two gauges per sensor: the reading each was set to
    logged,             \* the requests that were logged
    stats,              \* the two values of an answer to /stats
    answered,           \* history: the requests answered...
    before,             \* ... and those answered before each one came
    now, samples, sample_count, reading, evicted, kept  \* the summary

Latency == INSTANCE Summary WITH Observers <- Handlers

summary == <<now, samples, sample_count, reading, evicted, kept>>
counters == <<readings_total, readings_by_sensor, exceptions_total>>
history == <<answered, before>>
vars == <<handler, active_requests, data, counters, last_set, logged, stats, history, summary>>

Unread == -1
Idle == [step |-> "idle", request |-> NoRequest, old |-> 0]

Init ==
    /\ handler = [h \in Handlers |-> Idle]
    /\ active_requests = 0
    /\ data = <<>>
    /\ readings_total = 0 /\ exceptions_total = 0
    /\ readings_by_sensor = [s \in Sensors |-> 0]
    /\ last_set = [g \in Gauges |-> [s \in Sensors |-> NoRequest]]
    /\ logged = {} /\ answered = {}
    /\ stats = [averaged |-> 0, count |-> 0]
    /\ before = [q \in Requests |-> {}]
    /\ Latency!Init

SensorOf(h) == handler[h].request[1]

Goto(h, from, to) ==
    /\ handler[h].step = from
    /\ handler' = [handler EXCEPT ![h].step = to]

-----------------------------------------------------------------------------
(* Gauge::increment, a loop around compare_exchange_weak.                  *)

GaugeUnchanged == <<data, counters, last_set, logged, stats, history, summary>>

\* As if the sum were stored whatever the gauge has become.
CompareExchange_Stores(h, from, amount, to) ==
    /\ Goto(h, from, to)
    /\ active_requests' = handler[h].old + amount

\* It may fail and try again with what it found, also for no reason.
CompareExchange(h, from, amount, to) ==
    \/ /\ active_requests = handler[h].old
       /\ Goto(h, from, to)
       /\ active_requests' = handler[h].old + amount
    \/ /\ handler[h].step = from
       /\ handler' = [handler EXCEPT ![h].old = active_requests]
       /\ UNCHANGED active_requests

-----------------------------------------------------------------------------
(* POST /telemetry.                                                        *)

\* A request comes, and Gauge::increment loads the gauge.
Begin(h, q) ==
    /\ handler[h] = Idle
    /\ q \notin answered /\ \A g \in Handlers : handler[g].request # q
    /\ handler' = [handler EXCEPT ![h] = [step |-> "increment", request |-> q, old |-> active_requests]]
    /\ before' = [before EXCEPT ![q] = answered]
    /\ UNCHANGED <<active_requests, data, counters, last_set, logged, stats, answered, summary>>

Increment(h) == CompareExchange(h, "increment", 1, "parse") /\ UNCHANGED GaugeUnchanged

\* Parsing throws: record_exception, and 400 in the end.
Refuse(h) ==
    /\ handler[h].request \in BadBodies
    /\ Goto(h, "parse", "log")
    /\ exceptions_total' = exceptions_total + 1
    /\ UNCHANGED <<active_requests, data, readings_total, readings_by_sensor, last_set, logged, stats, history, summary>>

\* It does not: store.add.
Store(h) ==
    /\ handler[h].request \in Readings
    /\ Goto(h, "parse", "count")
    /\ data' = Append(data, handler[h].request)
    /\ UNCHANGED <<active_requests, counters, last_set, logged, stats, history, summary>>

CountReading(h) ==
    /\ Goto(h, "count", "count_by_sensor")
    /\ readings_total' = readings_total + 1
    /\ UNCHANGED <<active_requests, data, readings_by_sensor, exceptions_total, last_set, logged, stats, history, summary>>

\* As if the registry made a new counter every time.
OneMore_Fresh(sensor) == [readings_by_sensor EXCEPT ![sensor] = 1]

\* The counter of the sensor, which get_or_create made once.
OneMore(sensor) == [readings_by_sensor EXCEPT ![sensor] = @ + 1]

CountBySensor(h) ==
    /\ Goto(h, "count_by_sensor", "set_temperature")
    /\ readings_by_sensor' = OneMore(SensorOf(h))
    /\ UNCHANGED <<active_requests, data, readings_total, exceptions_total, last_set, logged, stats, history, summary>>

\* As if a gauge kept what it was set to first.
LastOf_First(h, gauge) ==
    LET last == last_set[gauge][SensorOf(h)]
    IN  IF last = NoRequest THEN handler[h].request ELSE last

LastOf(h, gauge) == handler[h].request

\* The gauges of the sensor, one after the other.
SetLast(h, gauge, from, to) ==
    /\ Goto(h, from, to)
    /\ last_set' = [last_set EXCEPT ![gauge][SensorOf(h)] = LastOf(h, gauge)]
    /\ UNCHANGED <<active_requests, data, counters, logged, stats, history, summary>>

SetTemperature(h) == SetLast(h, "temperature", "set_temperature", "set_humidity")

SetHumidity(h) == SetLast(h, "humidity", "set_humidity", "log")

Log(h) ==
    /\ Goto(h, "log", "load")
    /\ logged' = logged \cup {handler[h].request}
    /\ UNCHANGED <<active_requests, data, counters, last_set, stats, history, summary>>

Load(h) ==
    /\ handler[h].step = "load"
    /\ handler' = [handler EXCEPT ![h].step = "decrement", ![h].old = active_requests]
    /\ UNCHANGED <<active_requests, GaugeUnchanged>>

Decrement(h) == CompareExchange(h, "decrement", -1, "timer") /\ UNCHANGED GaugeUnchanged

\* The destructor of the timer: metric.observe(elapsed) reads the clock...
TimerReadsClock(h) ==
    /\ Goto(h, "timer", "observe")
    /\ Latency!ReadClock(h)
    /\ UNCHANGED <<active_requests, data, counters, last_set, logged, stats, history>>

\* ... and adds the sample, and the answer goes out.
Return(h) ==
    /\ handler[h].step = "observe"
    /\ handler' = [handler EXCEPT ![h] = Idle]
    /\ answered' = answered \cup {handler[h].request}
    /\ Latency!AddSample(h)
    /\ UNCHANGED <<active_requests, data, counters, last_set, logged, stats, before>>

Post(h) ==
    \/ \E q \in Requests : Begin(h, q)
    \/ Increment(h) \/ Refuse(h) \/ Store(h) \/ CountReading(h) \/ CountBySensor(h)
    \/ SetTemperature(h) \/ SetHumidity(h) \/ Log(h) \/ Load(h) \/ Decrement(h) \/ TimerReadsClock(h) \/ Return(h)

-----------------------------------------------------------------------------
(* Another thread answers GET /stats and GET /metrics; time passes.        *)

OthersUnchanged == <<handler, active_requests, data, counters, last_set, logged, history>>

\* store.avg_temperature(), then store.size(): each locks the store.
Average ==
    /\ stats.count # Unread
    /\ stats' = [averaged |-> Len(data), count |-> Unread]
    /\ UNCHANGED <<OthersUnchanged, summary>>

Size ==
    /\ stats.count = Unread
    /\ stats' = [stats EXCEPT !.count = Len(data)]
    /\ UNCHANGED <<OthersUnchanged, summary>>

Metrics == Latency!Snapshot /\ UNCHANGED <<OthersUnchanged, stats>>

Tick == Latency!Tick /\ UNCHANGED <<OthersUnchanged, stats>>

Next == (\E h \in Handlers : Post(h)) \/ Average \/ Size \/ Metrics \/ Tick

Spec == Init /\ [][Next]_vars

-----------------------------------------------------------------------------
At(steps) == {h \in Handlers : handler[h].step \in steps}

(* The gauge http_active_requests is the number of requests between their  *)
(* increment and their decrement, refused ones included, whatever the      *)
(* interleaving of the two loops.                                          *)
ActiveIsHandlers ==
    active_requests =
        Cardinality(At({"parse", "count", "count_by_sensor", "set_temperature", "set_humidity",
                        "log", "load", "decrement"}))

(* The store and the counters agree but for the readings being counted.    *)
(* An answered request was logged; it is in the store, once, if and only   *)
(* if it parses.  No count in /stats is below what its average is over.    *)
AnswersAgree ==
    /\ Len(data) = readings_total + Cardinality(At({"count"}))
    /\ \A s \in Sensors :
           Cardinality({i \in DOMAIN data : data[i][1] = s}) =
               readings_by_sensor[s] +
               Cardinality({h \in At({"count", "count_by_sensor"}) : SensorOf(h) = s})
    /\ exceptions_total >= Cardinality(answered \cap BadBodies)
    /\ answered \subseteq logged
    /\ \A q \in answered :
           Cardinality({i \in DOMAIN data : data[i] = q}) = IF q \in Readings THEN 1 ELSE 0
    /\ stats.count # Unread => stats.count >= stats.averaged

(* Neither gauge of a sensor is ever left at a reading that was answered   *)
(* before another one of this sensor, answered too, even came.             *)
LastIsRecent ==
    \A g \in Gauges, q \in answered \cap Readings : last_set[g][q[1]] \notin before[q]

(* See Summary: here for the timers of the requests.                       *)
RetentionIsKept == Latency!RetentionIsKept

=============================================================================
