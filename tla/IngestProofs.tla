---------------------------- MODULE IngestProofs ----------------------------
(***************************************************************************)
(* Proofs about Ingest, for any threads, requests and clock.               *)
(***************************************************************************)
EXTENDS Ingest, FiniteSetTheorems, SequenceTheorems, TLAPS

Steps == {"idle", "increment", "parse", "count", "count_by_sensor", "set_temperature",
          "set_humidity", "log", "load", "decrement", "timer", "observe"}

Typed ==
    /\ handler \in [Handlers ->
           [step : Steps, request : Requests \cup {NoRequest}, old : Int]]
    /\ active_requests \in Int
    /\ last_set \in [Gauges -> [Sensors -> Readings \cup {NoRequest}]]
    /\ before \in [Requests -> SUBSET answered]

ActiveSteps == {"parse", "count", "count_by_sensor", "set_temperature", "set_humidity",
                "log", "load", "decrement"}

\* The steps of a reading that has been stored until both gauges are set...
CountingSteps == {"count", "count_by_sensor", "set_temperature", "set_humidity"}

\* ... the steps after that, or after a refusal...
EndSteps == {"log", "load", "decrement", "timer", "observe"}

\* ... and those after one gauge has been set.
SettledSteps(gauge) ==
    IF gauge = "temperature" THEN EndSteps \cup {"set_humidity"} ELSE EndSteps

\* A request is in one thread until it is answered.
Private ==
    /\ \A h \in Handlers : handler[h].step # "idle" =>
           /\ handler[h].request \in Requests \ answered
           /\ handler[h].step \in CountingSteps => handler[h].request \in Readings
    /\ \A g, h \in Handlers :
           g # h /\ handler[g].step # "idle" => handler[g].request # handler[h].request

\* What LastIsRecent says, from the moment a reading has been set in a gauge.
RecentFor(gauge, h) ==
    handler[h].step \in SettledSteps(gauge) /\ handler[h].request \in Readings
        => last_set[gauge][SensorOf(h)] \notin before[handler[h].request]

RecentSoFar == LastIsRecent /\ \A gauge \in Gauges, h \in Handlers : RecentFor(gauge, h)

Inv == Typed /\ Private /\ ActiveIsHandlers /\ RecentSoFar

-----------------------------------------------------------------------------
(* The gauge.                                                              *)

LEMMA ActiveIsFinite == \A S : IsFiniteSet(At(S)) /\ Cardinality(At(S)) \in Nat
BY IngestAssumption, FS_Subset, FS_CardinalityType DEF IngestAssumption, At

\* A step of h that takes it from one active step to another, or that has
\* nothing to do with them, leaves the number as it is.
LEMMA SameActive ==
    ASSUME Inv, NEW h \in Handlers, active_requests' = active_requests,
           handler' \in [Handlers -> [step : Steps, request : Requests \cup {NoRequest}, old : Int]],
           \A g \in Handlers \ {h} : handler'[g] = handler[g],
           handler[h].step \in ActiveSteps <=> handler'[h].step \in ActiveSteps
    PROVE  ActiveIsHandlers'
<1>1. At(ActiveSteps)' = At(ActiveSteps)
  BY DEF At
<1> QED
  BY <1>1 DEF Inv, ActiveIsHandlers, ActiveSteps

LEMMA OneMoreActive ==
    ASSUME Inv, NEW h \in Handlers, active_requests' = active_requests + 1,
           \A g \in Handlers \ {h} : handler'[g] = handler[g],
           handler[h].step \notin ActiveSteps, handler'[h].step \in ActiveSteps
    PROVE  ActiveIsHandlers'
<1>1. At(ActiveSteps)' = At(ActiveSteps) \cup {h} /\ h \notin At(ActiveSteps)
  BY DEF At
<1>2. Cardinality(At(ActiveSteps)') = Cardinality(At(ActiveSteps)) + 1
  BY <1>1, ActiveIsFinite, FS_AddElement
<1> QED
  BY <1>2 DEF Inv, ActiveIsHandlers, ActiveSteps

LEMMA OneLessActive ==
    ASSUME Inv, NEW h \in Handlers, active_requests' = active_requests + (-1),
           \A g \in Handlers \ {h} : handler'[g] = handler[g],
           handler[h].step \in ActiveSteps, handler'[h].step \notin ActiveSteps
    PROVE  ActiveIsHandlers'
<1>1. At(ActiveSteps)' = At(ActiveSteps) \ {h} /\ h \in At(ActiveSteps)
  BY DEF At
<1>2. Cardinality(At(ActiveSteps)') = Cardinality(At(ActiveSteps)) - 1
  BY <1>1, ActiveIsFinite, FS_RemoveElement
<1> QED
  BY <1>2, ActiveIsFinite DEF Inv, ActiveIsHandlers, ActiveSteps

-----------------------------------------------------------------------------
(* The steps.                                                              *)

\* A step within a request that does not make a reading the last one.
LEMMA WithinRequest ==
    ASSUME Inv, NEW h \in Handlers,
           UNCHANGED <<last_set, history>>,
           handler' \in [Handlers -> [step : Steps, request : Requests \cup {NoRequest}, old : Int]],
           active_requests' \in Int,
           \A g \in Handlers \ {h} : handler'[g] = handler[g],
           handler'[h].request = handler[h].request, handler[h].step # "idle",
           handler'[h].step \in CountingSteps => handler[h].request \in Readings,
           \A gauge \in Gauges :
               \/ handler'[h].step \notin SettledSteps(gauge)
               \/ handler[h].step \in SettledSteps(gauge)
               \/ handler[h].request \notin Readings
    PROVE  Typed' /\ Private' /\ RecentSoFar'
<1>1. Typed'
  BY DEF Inv, Typed, history
<1>2. \A g \in Handlers : handler'[g].request = handler[g].request
  OBVIOUS
<1>3. \A g \in Handlers : handler'[g].step # "idle" => handler[g].step # "idle"
  OBVIOUS
<1>4. Private'
  BY <1>2, <1>3 DEF Inv, Private, history
<1>5. LastIsRecent'
  BY DEF Inv, RecentSoFar, LastIsRecent, history
<1>6. ASSUME NEW gauge \in Gauges, NEW g \in Handlers,
             handler'[g].step \in SettledSteps(gauge), handler'[g].request \in Readings
      PROVE  last_set'[gauge][SensorOf(g)'] \notin before'[handler'[g].request]
  <2>1. handler[g].step \in SettledSteps(gauge) /\ handler[g].request \in Readings
    BY <1>2, <1>6
  <2> QED
    BY <1>2, <2>1 DEF Inv, RecentSoFar, RecentFor, SensorOf, history
<1>7. RecentSoFar'
  BY <1>5, <1>6 DEF RecentSoFar, RecentFor
<1> QED
  BY <1>1, <1>4, <1>7

LEMMA BeginKeepsInv ==
    ASSUME Inv, NEW h \in Handlers, NEW q \in Requests, Begin(h, q)
    PROVE  Inv'
<1> DEFINE fresh == [step |-> "increment", request |-> q, old |-> active_requests]
<1>1. /\ handler[h] = Idle /\ q \notin answered
      /\ \A g \in Handlers : handler[g].request # q
      /\ handler' = [handler EXCEPT ![h] = fresh]
      /\ before' = [before EXCEPT ![q] = answered]
      /\ UNCHANGED <<active_requests, last_set, answered>>
  BY DEF Begin
<1>2. /\ fresh \in [step : Steps, request : Requests \cup {NoRequest}, old : Int]
      /\ handler'[h] = fresh /\ \A g \in Handlers \ {h} : handler'[g] = handler[g]
      /\ before'[q] = answered
      /\ \A p \in Requests \ {q} : before'[p] = before[p]
  <2>1. fresh \in [step : Steps, request : Requests \cup {NoRequest}, old : Int]
    BY DEF Inv, Typed, Steps
  <2> HIDE DEF fresh
  <2>2. DOMAIN handler = Handlers /\ DOMAIN before = Requests
    BY DEF Inv, Typed
  <2> QED
    BY <1>1, <2>1, <2>2
<1>3. Typed'
  BY <1>1, <1>2 DEF Inv, Typed
<1>4. Private'
  BY <1>1, <1>2 DEF Inv, Private, CountingSteps
<1>5. ActiveIsHandlers'
  BY <1>1, <1>2, <1>3, SameActive DEF Typed, ActiveSteps, Idle
<1>6. LastIsRecent'
  BY <1>1, <1>2 DEF Inv, RecentSoFar, LastIsRecent, Requests
<1>7. ASSUME NEW gauge \in Gauges, NEW g \in Handlers,
             handler'[g].step \in SettledSteps(gauge), handler'[g].request \in Readings
      PROVE  last_set'[gauge][SensorOf(g)'] \notin before'[handler'[g].request]
  <2>1. g # h /\ handler'[g] = handler[g] /\ handler[g].request # q
    BY <1>1, <1>2, <1>7 DEF SettledSteps, EndSteps
  <2> QED
    BY <1>1, <1>2, <1>7, <2>1 DEF Inv, RecentSoFar, RecentFor, SensorOf, Requests
<1> QED
  BY <1>3, <1>4, <1>5, <1>6, <1>7 DEF Inv, RecentSoFar, RecentFor

LEMMA SetLastKeepsInv ==
    ASSUME Inv, NEW h \in Handlers, NEW gauge \in Gauges, NEW from, NEW to \in Steps,
           SetLast(h, gauge, from, to),
           \/ gauge = "temperature" /\ from = "set_temperature" /\ to = "set_humidity"
           \/ gauge = "humidity" /\ from = "set_humidity" /\ to = "log"
    PROVE  Inv'
<1> DEFINE r == handler[h].request
<1>1. /\ handler[h].step = from /\ from \in CountingSteps /\ from # "idle" /\ to # "idle"
      /\ handler' = [handler EXCEPT ![h].step = to]
      /\ last_set' = [last_set EXCEPT ![gauge][r[1]] = r]
      /\ UNCHANGED <<active_requests, history>>
  BY DEF SetLast, Goto, SensorOf, LastOf, CountingSteps
<1>2. r \in Readings /\ r \notin answered /\ r[1] \in Sensors
  BY <1>1 DEF Inv, Private, Sensors
<1>3. /\ handler'[h].step = to
      /\ \A g \in Handlers : handler'[g].request = handler[g].request
      /\ \A g \in Handlers \ {h} : handler'[g] = handler[g]
      /\ handler' \in [Handlers -> [step : Steps, request : Requests \cup {NoRequest}, old : Int]]
  <2>1. handler \in [Handlers ->
            [step : Steps, request : Requests \cup {NoRequest}, old : Int]]
    BY DEF Inv, Typed
  <2> QED
    BY <1>1, <2>1
<1>4. Typed'
  <2>1. last_set \in [Gauges -> [Sensors -> Readings \cup {NoRequest}]]
    BY DEF Inv, Typed
  <2>2. last_set' \in [Gauges -> [Sensors -> Readings \cup {NoRequest}]]
    BY <1>1, <1>2, <2>1
  <2> QED
    BY <1>1, <1>3, <2>2 DEF Inv, Typed, history
<1>5. Private'
  BY <1>1, <1>2, <1>3 DEF Inv, Private, history
<1>6. ActiveIsHandlers'
  <2>1. handler[h].step \in ActiveSteps /\ handler'[h].step \in ActiveSteps
    BY <1>1, <1>3 DEF ActiveSteps
  <2> QED
    BY <1>1, <1>3, <2>1, SameActive
<1>7. \A u \in Gauges, q \in Readings :
          last_set'[u][q[1]] = r \/ last_set'[u][q[1]] = last_set[u][q[1]]
  BY <1>1, <1>2 DEF Inv, Typed, Sensors
<1>8. \A q \in Readings : r \notin before[q]
  BY <1>2 DEF Inv, Typed, Requests
<1>9. LastIsRecent'
  BY <1>1, <1>7, <1>8 DEF Inv, RecentSoFar, LastIsRecent, history
<1>10. ASSUME NEW u \in Gauges, NEW g \in Handlers,
              handler'[g].step \in SettledSteps(u), handler'[g].request \in Readings
       PROVE  last_set'[u][SensorOf(g)'] \notin before'[handler'[g].request]
  <2>1. handler'[g].request = handler[g].request /\ SensorOf(g)' = handler[g].request[1]
    BY <1>3 DEF SensorOf
  <2>2. before' = before
    BY <1>1 DEF history
  <2>3. CASE handler[g].step \in SettledSteps(u)
    <3>1. last_set[u][handler[g].request[1]] \notin before[handler[g].request]
      BY <1>10, <2>1, <2>3 DEF Inv, RecentSoFar, RecentFor, SensorOf
    <3> QED
      BY <1>7, <1>8, <1>10, <2>1, <2>2, <3>1
  <2>4. CASE handler[g].step \notin SettledSteps(u)
    <3>1. g = h
      BY <1>3, <1>10, <2>4
    <3>2. u = gauge
      BY <1>1, <1>3, <1>10, <2>4, <3>1 DEF SettledSteps, EndSteps, Gauges
    <3>3. last_set'[gauge][r[1]] = r
      BY <1>1, <1>2 DEF Inv, Typed
    <3> QED
      BY <1>2, <1>8, <2>1, <2>2, <3>1, <3>2, <3>3
  <2> QED
    BY <2>3, <2>4
<1> QED
  BY <1>4, <1>5, <1>6, <1>9, <1>10 DEF Inv, RecentSoFar, RecentFor

LEMMA ReturnKeepsInv ==
    ASSUME Inv, NEW h \in Handlers, Return(h)
    PROVE  Inv'
<1> DEFINE r == handler[h].request
<1>1. /\ handler[h].step = "observe"
      /\ handler' = [handler EXCEPT ![h] = Idle]
      /\ answered' = answered \cup {r}
      /\ UNCHANGED <<active_requests, last_set, before>>
  BY DEF Return
<1>2. /\ handler'[h] = Idle
      /\ \A g \in Handlers \ {h} : handler'[g] = handler[g]
      /\ Idle \in [step : Steps, request : Requests \cup {NoRequest}, old : Int]
  <2>1. Idle \in [step : Steps, request : Requests \cup {NoRequest}, old : Int]
    BY DEF Idle, Steps
  <2>2. DOMAIN handler = Handlers
    BY DEF Inv, Typed
  <2> QED
    BY <1>1, <2>1, <2>2
<1>3. Typed'
  BY <1>1, <1>2 DEF Inv, Typed
<1>4. /\ r \in Requests /\ NoRequest \notin Requests
      /\ \A g \in Handlers \ {h} : handler[g].step # "idle" => handler[g].request # r
  BY <1>1, IngestAssumption DEF Inv, Private, IngestAssumption, Requests
<1>5. Private'
  BY <1>1, <1>2, <1>4 DEF Inv, Private, Idle
<1>6. ActiveIsHandlers'
  BY <1>1, <1>2, <1>3, SameActive DEF Typed, ActiveSteps, Idle
<1>7. r \in Readings => \A gauge \in Gauges : last_set[gauge][r[1]] \notin before[r]
  BY <1>1 DEF Inv, RecentSoFar, RecentFor, SettledSteps, EndSteps, SensorOf
<1>8. LastIsRecent'
  BY <1>1, <1>7 DEF Inv, RecentSoFar, LastIsRecent
<1>9. RecentSoFar'
  BY <1>1, <1>2, <1>8 DEF Inv, RecentSoFar, RecentFor, SensorOf, SettledSteps, EndSteps, Idle
<1> QED
  BY <1>3, <1>5, <1>6, <1>9 DEF Inv

\* compare_exchange_weak, when it fails.
LEMMA RetryKeepsInv ==
    ASSUME Inv, NEW h \in Handlers,
           handler[h].step \in {"increment", "load", "decrement"},
           NEW to \in {"increment", "decrement"},
           handler[h].step = "increment" => to = "increment",
           handler[h].step # "increment" => to = "decrement",
           handler' = [handler EXCEPT ![h].step = to, ![h].old = active_requests],
           UNCHANGED <<active_requests, last_set, history>>
    PROVE  Inv'
<1>1. /\ handler' \in [Handlers -> [step : Steps, request : Requests \cup {NoRequest}, old : Int]]
      /\ \A g \in Handlers \ {h} : handler'[g] = handler[g]
      /\ handler'[h].request = handler[h].request
      /\ handler'[h].step = to
      /\ active_requests' \in Int
  <2>1. /\ handler \in [Handlers ->
                [step : Steps, request : Requests \cup {NoRequest}, old : Int]]
        /\ active_requests \in Int /\ to \in Steps
    BY DEF Inv, Typed, Steps
  <2> QED
    BY <2>1
<1>2. Typed' /\ Private' /\ RecentSoFar'
  <2>1. to \notin CountingSteps /\ handler[h].step # "idle"
    BY DEF CountingSteps
  <2>2. \A gauge \in Gauges :
            to \notin SettledSteps(gauge) \/ handler[h].step \in SettledSteps(gauge)
    BY DEF SettledSteps, EndSteps
  <2> QED
    BY <1>1, <2>1, <2>2, WithinRequest
<1>3. ActiveIsHandlers'
  BY <1>1, SameActive DEF ActiveSteps
<1> QED
  BY <1>2, <1>3 DEF Inv

\* Any step that takes a thread on and changes neither the gauges nor the
\* history.
LEMMA GotoKeepsInv ==
    ASSUME Inv, NEW h \in Handlers, NEW from \in Steps, NEW to \in Steps, Goto(h, from, to),
           from # "idle",
           UNCHANGED <<active_requests, last_set, history>>,
           from \in ActiveSteps <=> to \in ActiveSteps,
           to \in CountingSteps => handler[h].request \in Readings,
           \A gauge \in Gauges : \/ to \notin SettledSteps(gauge)
                                \/ from \in SettledSteps(gauge)
                                \/ handler[h].request \notin Readings
    PROVE  Inv'
<1>1. handler \in [Handlers -> [step : Steps, request : Requests \cup {NoRequest}, old : Int]]
  BY DEF Inv, Typed
<1>2. /\ handler' \in [Handlers -> [step : Steps, request : Requests \cup {NoRequest}, old : Int]]
      /\ \A g \in Handlers \ {h} : handler'[g] = handler[g]
      /\ handler'[h].request = handler[h].request
      /\ handler[h].step = from /\ handler'[h].step = to
  BY <1>1 DEF Goto
<1>3. active_requests' \in Int
  BY DEF Inv, Typed
<1>4. Typed' /\ Private' /\ RecentSoFar'
  BY <1>2, <1>3, WithinRequest
<1>5. ActiveIsHandlers'
  BY <1>2, SameActive
<1> QED
  BY <1>4, <1>5 DEF Inv

\* compare_exchange_weak, when it succeeds: the gauge is still what h has read.
LEMMA ExchangeKeepsInv ==
    ASSUME Inv, NEW h \in Handlers, NEW to \in Steps, NEW amount,
           active_requests = handler[h].old, active_requests' = handler[h].old + amount,
           Goto(h, handler[h].step, to),
           \/ handler[h].step = "increment" /\ to = "parse" /\ amount = 1
           \/ handler[h].step = "decrement" /\ to = "timer" /\ amount = -1,
           UNCHANGED <<last_set, history>>
    PROVE  Inv'
<1>1. handler \in [Handlers -> [step : Steps, request : Requests \cup {NoRequest}, old : Int]]
  BY DEF Inv, Typed
<1>2. /\ handler' \in [Handlers -> [step : Steps, request : Requests \cup {NoRequest}, old : Int]]
      /\ \A g \in Handlers \ {h} : handler'[g] = handler[g]
      /\ handler'[h].request = handler[h].request /\ handler'[h].step = to
  BY <1>1 DEF Goto
<1>3. active_requests' = active_requests + amount /\ active_requests' \in Int
  BY DEF Inv, Typed
<1>4. Typed' /\ Private' /\ RecentSoFar'
  <2>1. /\ handler[h].step # "idle" /\ to \notin CountingSteps
        /\ \A gauge \in Gauges :
               to \notin SettledSteps(gauge) \/ handler[h].step \in SettledSteps(gauge)
    BY DEF CountingSteps, SettledSteps, EndSteps
  <2> QED
    BY <1>2, <1>3, <2>1, WithinRequest
<1>5. ActiveIsHandlers'
  <2>1. CASE handler[h].step = "increment"
    BY <1>2, <1>3, <2>1, OneMoreActive DEF ActiveSteps
  <2>2. CASE handler[h].step = "decrement"
    BY <1>2, <1>3, <2>2, OneLessActive DEF ActiveSteps
  <2> QED
    BY <2>1, <2>2
<1> QED
  BY <1>4, <1>5 DEF Inv

LEMMA PostKeepsInv ==
    ASSUME Inv, NEW h \in Handlers, Post(h)
    PROVE  Inv'
<1> USE DEF Steps, ActiveSteps, CountingSteps, SettledSteps, EndSteps
<1>1. ASSUME NEW q \in Requests, Begin(h, q)
      PROVE  Inv'
  BY <1>1, BeginKeepsInv
<1>2. CASE Increment(h)
  <2>1. /\ CompareExchange(h, "increment", 1, "parse")
        /\ UNCHANGED <<last_set, history>>
    BY <1>2 DEF Increment, GaugeUnchanged
  <2>2. CASE /\ active_requests = handler[h].old
             /\ Goto(h, "increment", "parse")
             /\ active_requests' = handler[h].old + 1
    BY <2>1, <2>2, ExchangeKeepsInv DEF Goto
  <2>3. CASE /\ handler[h].step = "increment"
             /\ handler' = [handler EXCEPT ![h].old = active_requests]
             /\ UNCHANGED active_requests
    <3>1. handler' = [handler EXCEPT ![h].step = "increment", ![h].old = active_requests]
      BY <2>3 DEF Inv, Typed
    <3> QED
      BY <2>1, <2>3, <3>1, RetryKeepsInv
  <2> QED
    BY <2>1, <2>2, <2>3 DEF CompareExchange
<1>3. CASE Decrement(h)
  <2>1. /\ CompareExchange(h, "decrement", -1, "timer")
        /\ UNCHANGED <<last_set, history>>
    BY <1>3 DEF Decrement, GaugeUnchanged
  <2>2. CASE /\ active_requests = handler[h].old
             /\ Goto(h, "decrement", "timer")
             /\ active_requests' = handler[h].old + (-1)
    BY <2>1, <2>2, ExchangeKeepsInv DEF Goto
  <2>3. CASE /\ handler[h].step = "decrement"
             /\ handler' = [handler EXCEPT ![h].old = active_requests]
             /\ UNCHANGED active_requests
    <3>1. handler' = [handler EXCEPT ![h].step = "decrement", ![h].old = active_requests]
      BY <2>3 DEF Inv, Typed
    <3> QED
      BY <2>1, <2>3, <3>1, RetryKeepsInv
  <2> QED
    BY <2>1, <2>2, <2>3 DEF CompareExchange
<1>4. CASE Refuse(h)
  <2>1. handler[h].request \notin Readings
    BY <1>4, IngestAssumption DEF Refuse, IngestAssumption
  <2> QED
    BY <1>4, <2>1, GotoKeepsInv DEF Refuse
<1>5. CASE Store(h)
  BY <1>5, GotoKeepsInv DEF Store
<1>6. CASE CountReading(h) \/ CountBySensor(h)
  <2>1. handler[h].request \in Readings
    BY <1>6 DEF CountReading, CountBySensor, Goto, Inv, Private
  <2>2. CASE CountReading(h)
    BY <2>1, <2>2, GotoKeepsInv DEF CountReading
  <2>3. CASE CountBySensor(h)
    BY <2>1, <2>3, GotoKeepsInv DEF CountBySensor
  <2> QED
    BY <1>6, <2>2, <2>3
<1>7. CASE SetTemperature(h) \/ SetHumidity(h)
  BY <1>7, SetLastKeepsInv DEF SetTemperature, SetHumidity, Gauges
<1>8. CASE Log(h)
  BY <1>8, GotoKeepsInv DEF Log
<1>9. CASE Load(h)
  BY <1>9, RetryKeepsInv DEF Load, GaugeUnchanged
<1>10. CASE TimerReadsClock(h)
  BY <1>10, GotoKeepsInv DEF TimerReadsClock
<1>11. CASE Return(h)
  BY <1>11, ReturnKeepsInv
<1> QED
  BY <1>1, <1>2, <1>3, <1>4, <1>5, <1>6, <1>7, <1>8, <1>9, <1>10, <1>11 DEF Post

LEMMA InvNext ==
    ASSUME Inv, [Next]_vars
    PROVE  Inv'
<1>1. CASE UNCHANGED <<handler, active_requests, last_set, history>>
  BY <1>1 DEF Inv, Typed, Private, ActiveIsHandlers, At, RecentSoFar, RecentFor, LastIsRecent, SensorOf, history
<1>2. CASE Average \/ Size \/ Metrics \/ Tick \/ UNCHANGED vars
  BY <1>1, <1>2 DEF Average, Size, Metrics, Tick, OthersUnchanged, vars
<1>3. ASSUME NEW h \in Handlers, Post(h)
      PROVE  Inv'
  BY <1>3, PostKeepsInv
<1> QED
  BY <1>2, <1>3 DEF Next

LEMMA InvInit == Init => Inv
<1> SUFFICES ASSUME Init PROVE Inv
  OBVIOUS
<1>1. Typed
  BY DEF Init, Typed, Idle, Steps
<1>2. \A h \in Handlers : handler[h].step = "idle"
  BY DEF Init, Idle
<1>3. ActiveIsHandlers
  <2>1. At(ActiveSteps) = {}
    BY <1>2 DEF At, ActiveSteps
  <2> QED
    BY <2>1, FS_EmptySet DEF Init, ActiveIsHandlers, ActiveSteps
<1>4. RecentSoFar
  BY <1>2 DEF Init, RecentSoFar, RecentFor, LastIsRecent, SettledSteps, EndSteps
<1> QED
  BY <1>1, <1>2, <1>3, <1>4 DEF Inv, Private

\* However many server threads increment and decrement the gauge, and however
\* often their compare_exchange_weak fails: it is the number of requests in
\* between.
THEOREM ActiveIsExact == Spec => []ActiveIsHandlers
<1>1. Inv => ActiveIsHandlers
  BY DEF Inv
<1> QED
  BY <1>1, InvInit, InvNext, PTL DEF Spec

\* However many readings of a sensor are handled at a time: neither of its
\* gauges is ever left at one that was answered before another answered one even
\* came.
THEOREM LastReadingIsRecent == Spec => []LastIsRecent
<1>1. Inv => LastIsRecent
  BY DEF Inv, RecentSoFar
<1> QED
  BY <1>1, InvInit, InvNext, PTL DEF Spec

-----------------------------------------------------------------------------
(* The summary of the timers.                                              *)

LEMMA BoundsAreNatural == Retention \in Nat /\ MaxLateness \in Nat /\ LastTime \in Nat
BY IngestAssumption DEF IngestAssumption

\* Samples are out of order by no more than a thread may be late, which is all
\* the binary search can rely on.
NearlySorted ==
    \A i, j \in 1 .. Len(samples) : i < j => samples[i] <= samples[j] + MaxLateness

InTime(time) == time \in Int /\ now - MaxLateness <= time /\ time <= now

TimersInv ==
    /\ now \in Nat
    /\ samples \in Seq(Int)
    /\ \A i \in 1 .. Len(samples) : samples[i] <= now
    /\ reading \in [Handlers -> Int]
    /\ \A t \in Handlers : reading[t] # Latency!None => InTime(reading[t])
    /\ NearlySorted
    /\ Latency!RetentionIsKept

\* What evict_locked evicts and keeps, when it is called with a time that is
\* not too old.
LEMMA EvictsByAge ==
    ASSUME TimersInv, NEW time, InTime(time), NEW f \in Latency!FirstValid(time - Retention)
    PROVE  /\ \A age \in Latency!Ages(1, f) : age > Retention - MaxLateness
           /\ \A age \in Latency!Ages(f + 1, Len(samples)) : age <= Retention + 2 * MaxLateness
<1> USE BoundsAreNatural
<1>1. /\ f \in 0 .. Len(samples)
      /\ f > 0 => samples[f] < time - Retention
      /\ f < Len(samples) => samples[f + 1] >= time - Retention
  BY DEF Latency!FirstValid
<1>2. /\ Len(samples) \in Nat /\ now \in Int /\ time \in Int
      /\ \A i \in 1 .. Len(samples) : samples[i] \in Int
  BY DEF TimersInv, InTime
<1>3. ASSUME NEW i \in 1 .. f
      PROVE  now - samples[i] > Retention - MaxLateness
  <2>1. samples[i] <= samples[f] + MaxLateness
    <3>1. CASE i = f
      BY <1>1, <1>2, <3>1
    <3>2. CASE i < f
      <4>1. NearlySorted /\ i \in 1 .. Len(samples) /\ f \in 1 .. Len(samples)
        BY <1>1, <1>2, <3>2 DEF TimersInv
      <4> QED
        BY <3>2, <4>1 DEF NearlySorted
    <3> QED
      BY <1>1, <3>1, <3>2
  <2> QED
    BY <1>1, <1>2, <2>1 DEF InTime
<1>4. ASSUME NEW i \in f + 1 .. Len(samples)
      PROVE  now - samples[i] <= Retention + 2 * MaxLateness
  <2>1. samples[f + 1] <= samples[i] + MaxLateness
    <3>1. CASE i = f + 1
      BY <1>1, <1>2, <3>1
    <3>2. CASE i > f + 1
      <4>1. /\ NearlySorted
            /\ i \in 1 .. Len(samples) /\ f + 1 \in 1 .. Len(samples) /\ f + 1 < i
        BY <1>1, <1>2, <3>2 DEF TimersInv
      <4> QED
        BY <4>1 DEF NearlySorted
    <3> QED
      BY <1>1, <3>1, <3>2
  <2>2. f < Len(samples) /\ samples[f + 1] >= time - Retention
    BY <1>1, <1>2
  <2>3. samples[f + 1] \in Int /\ samples[i] \in Int
    BY <1>1, <1>2, <2>2
  <2> QED
    BY <1>2, <2>1, <2>2, <2>3 DEF InTime
<1> QED
  BY <1>3, <1>4 DEF Latency!Ages

\* evict_locked, with at most one sample appended, which is not too old.
LEMMA EvictionKeepsInv ==
    ASSUME TimersInv, NEW time, InTime(time), NEW more \in {<<>>, <<time>>},
           Latency!EvictThenAppend(time, more), now' = now
    PROVE  /\ samples' \in Seq(Int)
           /\ \A i \in 1 .. Len(samples') : samples'[i] <= now
           /\ NearlySorted'
           /\ Latency!RetentionIsKept'
<1> USE BoundsAreNatural
<1>1. PICK f \in Latency!FirstValid(time - Retention) :
        /\ samples' = SubSeq(samples, f + 1, Len(samples)) \o more
        /\ sample_count' = sample_count - f + Len(more)
        /\ evicted' = Latency!Ages(1, f) /\ kept' = Latency!Ages(f + 1, Len(samples))
  BY DEF Latency!EvictThenAppend
<1>2. f \in 0 .. Len(samples) /\ Len(samples) \in Nat /\ time \in Int /\ samples \in Seq(Int)
  BY DEF Latency!FirstValid, TimersInv, InTime
<1> DEFINE rest == SubSeq(samples, f + 1, Len(samples))
<1>3. /\ rest \in Seq(Int) /\ Len(rest) = Len(samples) - f
      /\ \A i \in 1 .. Len(rest) : rest[i] = samples[f + i]
  BY <1>2, SubSeqProperties
<1>4. /\ samples' \in Seq(Int)
      /\ Len(samples') = Len(rest) + Len(more)
      /\ \A i \in 1 .. Len(samples') :
             samples'[i] = IF i <= Len(rest) THEN samples[f + i] ELSE time
  <2>1. CASE more = <<>>
    BY <1>1, <1>2, <1>3, <2>1
  <2>2. CASE more = <<time>>
    <3>1. samples' = rest \o <<time>> /\ time \in Int
      BY <1>1, <1>2, <2>2
    <3>2. Len(more) = 1
      BY <2>2
    <3> HIDE DEF rest
    <3>3. /\ rest \o <<time>> \in Seq(Int) /\ Len(rest \o <<time>>) = Len(rest) + 1
          /\ \A i \in 1 .. Len(rest) + 1 :
                 (rest \o <<time>>)[i] = IF i <= Len(rest) THEN rest[i] ELSE time
      BY <1>3, <3>1
    <3> QED
      BY <1>3, <3>1, <3>2, <3>3
  <2> QED
    BY <2>1, <2>2
<1> HIDE DEF rest
<1>5. \A i \in 1 .. Len(samples') : samples'[i] <= now /\ samples'[i] \in Int
  <2> SUFFICES ASSUME NEW i \in 1 .. Len(samples')
               PROVE  samples'[i] <= now /\ samples'[i] \in Int
    OBVIOUS
  <2>1. Len(rest) \in Nat /\ Len(more) \in 0 .. 1
    BY <1>2, <1>3
  <2>2. CASE i <= Len(rest)
    <3>1. f + i \in 1 .. Len(samples) /\ samples'[i] = samples[f + i]
      BY <1>2, <1>3, <1>4, <2>1, <2>2
    <3> QED
      BY <3>1, <1>2 DEF TimersInv
  <2>3. CASE i > Len(rest)
    BY <1>4, <2>1, <2>3 DEF InTime
  <2> QED
    BY <2>1, <2>2, <2>3, <1>4
<1>6. NearlySorted'
  <2> SUFFICES ASSUME NEW i \in 1 .. Len(samples'), NEW j \in 1 .. Len(samples'), i < j
               PROVE  samples'[i] <= samples'[j] + MaxLateness
    BY DEF NearlySorted
  <2>1. CASE j <= Len(rest)
    <3>1. /\ f + i \in 1 .. Len(samples) /\ f + j \in 1 .. Len(samples) /\ f + i < f + j
          /\ i <= Len(rest)
      BY <1>2, <1>3, <2>1
    <3>2. samples'[i] = samples[f + i] /\ samples'[j] = samples[f + j]
      BY <1>4, <2>1, <3>1
    <3>3. NearlySorted
      BY DEF TimersInv
    <3> QED
      BY <3>1, <3>2, <3>3 DEF NearlySorted
  <2>2. CASE j > Len(rest)
    <3>1. ~(j <= Len(rest))
      BY <1>2, <1>3, <2>2
    <3>2. samples'[j] = time
      BY <1>4, <3>1
    <3>3. samples'[i] \in Int /\ samples'[i] <= now
      BY <1>5
    <3> QED
      BY <3>2, <3>3 DEF InTime, TimersInv
  <2> QED
    BY <1>2, <1>3, <2>1, <2>2
<1>7. Latency!RetentionIsKept'
  <2>1. sample_count' = Len(samples')
    BY <1>1, <1>2, <1>3, <1>4 DEF TimersInv, Latency!RetentionIsKept
  <2> QED
    BY <1>1, <2>1, EvictsByAge DEF Latency!RetentionIsKept
<1> QED
  BY <1>4, <1>5, <1>6, <1>7

\* Every step keeps the invariant.
LEMMA TimersNext ==
    ASSUME TimersInv, [Latency!Next]_(Latency!vars)
    PROVE  TimersInv'
<1> USE BoundsAreNatural
<1> USE DEF Latency!None
<1>1. CASE Latency!Tick
  <2>1. \A t \in Handlers : reading[t] # Latency!None => InTime(reading[t])'
    BY <1>1 DEF Latency!Tick, TimersInv, InTime
  <2> QED
    BY <1>1, <2>1 DEF Latency!Tick, TimersInv, NearlySorted, Latency!RetentionIsKept
<1>2. CASE Latency!Snapshot
  <2>1. InTime(now) /\ <<>> \in {<<>>, <<now>>}
    BY DEF InTime, TimersInv
  <2>2. Latency!EvictThenAppend(now, <<>>) /\ now' = now /\ reading' = reading
    BY <1>2 DEF Latency!Snapshot
  <2> QED
    BY <2>1, <2>2, EvictionKeepsInv DEF TimersInv, InTime
<1>3. ASSUME NEW t \in Handlers, Latency!ReadClock(t)
      PROVE  TimersInv'
  <2>1. \A o \in Handlers : reading'[o] # Latency!None => InTime(reading'[o])
    BY <1>3 DEF Latency!ReadClock, TimersInv, InTime
  <2> QED
    BY <1>3, <2>1 DEF Latency!ReadClock, TimersInv, InTime, NearlySorted, Latency!RetentionIsKept
<1>4. ASSUME NEW t \in Handlers, Latency!AddSample(t)
      PROVE  TimersInv'
  <2>1. InTime(reading[t]) /\ <<reading[t]>> \in {<<>>, <<reading[t]>>}
    BY <1>4 DEF Latency!AddSample, TimersInv
  <2>2. /\ Latency!EvictThenAppend(reading[t], <<reading[t]>>) /\ now' = now
        /\ reading' = [reading EXCEPT ![t] = Latency!None]
    BY <1>4 DEF Latency!AddSample
  <2>3. /\ reading' \in [Handlers -> Int]
        /\ \A o \in Handlers : reading'[o] # Latency!None => InTime(reading'[o])
    BY <2>2 DEF TimersInv
  <2> QED
    BY <2>1, <2>2, <2>3, EvictionKeepsInv DEF TimersInv, InTime
<1>5. CASE UNCHANGED Latency!vars
  BY <1>5 DEF Latency!vars, TimersInv, InTime, NearlySorted, Latency!RetentionIsKept
<1> QED
  BY <1>1, <1>2, <1>3, <1>4, <1>5 DEF Latency!Next

\* The handlers and /metrics do to it what Summary describes, and nothing else.
LEMMA StepsAreOfTheTimers == [Next]_vars => [Latency!Next]_(Latency!vars)
<1> SUFFICES ASSUME [Next]_vars PROVE [Latency!Next]_(Latency!vars)
  OBVIOUS
<1>1. CASE UNCHANGED summary
  BY <1>1 DEF summary, Latency!vars
<1>2. ASSUME NEW h \in Handlers, Post(h)
      PROVE  [Latency!Next]_(Latency!vars)
  <2>1. CASE TimerReadsClock(h)
    BY <2>1 DEF TimerReadsClock, Latency!Next
  <2>2. CASE Return(h)
    BY <2>2 DEF Return, Latency!Next
  <2>3. CASE ~TimerReadsClock(h) /\ ~Return(h)
    <3>1. CASE \E q \in Requests : Begin(h, q)
      BY <1>1, <3>1 DEF Begin
    <3>2. CASE Increment(h) \/ Decrement(h)
      BY <1>1, <3>2 DEF Increment, Decrement, GaugeUnchanged
    <3>3. CASE Refuse(h) \/ Store(h)
      BY <1>1, <3>3 DEF Refuse, Store
    <3>4. CASE CountReading(h) \/ CountBySensor(h) \/ SetTemperature(h) \/ SetHumidity(h)
      BY <1>1, <3>4 DEF CountReading, CountBySensor, SetTemperature, SetHumidity, SetLast
    <3>5. CASE Log(h) \/ Load(h)
      BY <1>1, <3>5 DEF Log, Load, GaugeUnchanged
    <3> QED
      BY <1>2, <2>3, <3>1, <3>2, <3>3, <3>4, <3>5 DEF Post
  <2> QED
    BY <2>1, <2>2, <2>3
<1>3. CASE Average \/ Size \/ UNCHANGED vars
  BY <1>1, <1>3 DEF Average, Size, vars
<1>4. CASE Metrics
  BY <1>4 DEF Metrics, Latency!Next
<1>5. CASE Tick
  BY <1>5 DEF Tick, Latency!Next
<1> QED
  BY <1>2, <1>3, <1>4, <1>5 DEF Next

\* However late the handlers come between the clock and the lock, by at most
\* MaxLateness: the binary search of evict_locked, over samples that need not be
\* sorted, evicts none and keeps none that is on the wrong side of Retention by
\* more than that lateness explains, and the count is that of the samples.
THEOREM RetentionHolds == Spec => []RetentionIsKept
<1>1. Init => TimersInv
  BY BoundsAreNatural DEF Init, Latency!Init, TimersInv, InTime, Latency!None, NearlySorted,
                          Latency!RetentionIsKept
<1>2. TimersInv /\ [Next]_vars => TimersInv'
  BY TimersNext, StepsAreOfTheTimers
<1>3. TimersInv => RetentionIsKept
  BY DEF TimersInv, RetentionIsKept
<1> QED
  BY <1>1, <1>2, <1>3, PTL DEF Spec

-----------------------------------------------------------------------------
(* The store, the counters and the answers.                                *)

LoggedSteps == {"load", "decrement", "timer", "observe"}
StoredSteps == CountingSteps \cup EndSteps

Stored(q) ==
    /\ q \in Readings
    /\ q \in answered \/ \E h \in Handlers : handler[h].step \in StoredSteps /\ handler[h].request = q

Refused ==
    {q \in BadBodies :
        q \in answered \/ \E h \in Handlers : handler[h].step \in EndSteps /\ handler[h].request = q}

CountingOf(s) == {h \in At({"count", "count_by_sensor"}) : SensorOf(h) = s}
PositionsOf(s) == {i \in 1 .. Len(data) : data[i][1] = s}

CountsTyped ==
    /\ data \in Seq(Readings)
    /\ readings_total \in Nat /\ exceptions_total \in Nat
    /\ readings_by_sensor \in [Sensors -> Nat]
    /\ stats \in [averaged : Nat, count : Nat \cup {Unread}]
    /\ answered \subseteq Requests

\* The counters count what is in the store, but for the readings of the
\* threads that are just counting.
CountsAgree ==
    /\ Len(data) = readings_total + Cardinality(At({"count"}))
    /\ \A s \in Sensors :
           Cardinality(PositionsOf(s)) = readings_by_sensor[s] + Cardinality(CountingOf(s))
    /\ IsFiniteSet(Refused) /\ exceptions_total = Cardinality(Refused)

\* The store holds each reading that came far enough once, and nothing else.
StoredOnce ==
    /\ \A i, j \in 1 .. Len(data) : data[i] = data[j] => i = j
    /\ \A q : Stored(q) <=> \E i \in 1 .. Len(data) : data[i] = q

AllLogged ==
    /\ answered \subseteq logged
    /\ \A h \in Handlers : handler[h].step \in LoggedSteps => handler[h].request \in logged

StatsAgree ==
    /\ stats.averaged <= Len(data)
    /\ stats.count # Unread => stats.count >= stats.averaged

Agreement == CountsTyped /\ CountsAgree /\ StoredOnce /\ AllLogged /\ StatsAgree

LEMMA AgreementIsEnough == Agreement => AnswersAgree
<1> SUFFICES ASSUME Agreement PROVE AnswersAgree
  OBVIOUS
<1>1. DOMAIN data = 1 .. Len(data) /\ \A i \in 1 .. Len(data) : data[i] \in Readings
  BY DEF Agreement, CountsTyped
<1>2. \A s \in Sensors :
          Cardinality({i \in DOMAIN data : data[i][1] = s}) =
              readings_by_sensor[s] +
              Cardinality({h \in At({"count", "count_by_sensor"}) : SensorOf(h) = s})
  BY <1>1 DEF Agreement, CountsAgree, PositionsOf, CountingOf
<1>3. exceptions_total >= Cardinality(answered \cap BadBodies)
  <2>1. answered \cap BadBodies \subseteq Refused /\ IsFiniteSet(Refused)
    BY DEF Refused, Agreement, CountsAgree
  <2>2. /\ Cardinality(answered \cap BadBodies) <= Cardinality(Refused)
        /\ Cardinality(answered \cap BadBodies) \in Nat /\ Cardinality(Refused) \in Nat
    BY <2>1, FS_Subset, FS_CardinalityType
  <2> QED
    BY <2>2 DEF Agreement, CountsAgree
<1>4. ASSUME NEW q \in answered
      PROVE  Cardinality({i \in DOMAIN data : data[i] = q}) = IF q \in Readings THEN 1 ELSE 0
  <2>1. CASE q \in Readings
    <3>1. PICK i \in 1 .. Len(data) : data[i] = q
      BY <2>1 DEF Agreement, StoredOnce, Stored
    <3>2. {j \in DOMAIN data : data[j] = q} = {i}
      BY <1>1, <3>1 DEF Agreement, StoredOnce
    <3> QED
      BY <2>1, <3>2, FS_Singleton
  <2>2. CASE q \notin Readings
    <3>1. {j \in DOMAIN data : data[j] = q} = {}
      BY <1>1, <2>2
    <3> QED
      BY <2>2, <3>1, FS_EmptySet
  <2> QED
    BY <2>1, <2>2
<1> QED
  BY <1>2, <1>3, <1>4 DEF AnswersAgree, Agreement, CountsAgree, AllLogged, StatsAgree

\* One more element, or one less.
LEMMA OneElementMore ==
    ASSUME NEW S, IsFiniteSet(S), NEW x, x \notin S
    PROVE  Cardinality(S) \in Nat /\ IsFiniteSet(S \cup {x}) /\ Cardinality(S \cup {x}) = Cardinality(S) + 1
BY FS_CardinalityType, FS_AddElement

LEMMA OneElementLess ==
    ASSUME NEW S, IsFiniteSet(S), NEW x \in S
    PROVE  Cardinality(S) = Cardinality(S \ {x}) + 1 /\ Cardinality(S \ {x}) \in Nat
<1>1. IsFiniteSet(S \ {x}) /\ x \notin S \ {x} /\ (S \ {x}) \cup {x} = S
  BY FS_Subset
<1> QED
  BY <1>1, OneElementMore, FS_CardinalityType

LEMMA CountingIsFinite ==
    /\ IsFiniteSet(At({"count"})) /\ Cardinality(At({"count"})) \in Nat
    /\ \A s : IsFiniteSet(CountingOf(s)) /\ Cardinality(CountingOf(s)) \in Nat
<1>1. \A s : CountingOf(s) \subseteq Handlers
  BY DEF CountingOf, At
<1> QED
  BY <1>1, ActiveIsFinite, IngestAssumption, FS_Subset, FS_CardinalityType DEF IngestAssumption

LEMMA PositionsAreFinite ==
    ASSUME CountsTyped
    PROVE  \A s : IsFiniteSet(PositionsOf(s)) /\ Cardinality(PositionsOf(s)) \in Nat
                  /\ \A i \in PositionsOf(s) : i <= Len(data)
<1>1. Len(data) \in Nat /\ 1 \in Int /\ Len(data) \in Int
  BY DEF CountsTyped
<1>2. IsFiniteSet(1 .. Len(data))
  BY <1>1, FS_Interval
<1>3. \A s : PositionsOf(s) \subseteq 1 .. Len(data)
  BY DEF PositionsOf
<1> QED
  BY <1>1, <1>2, <1>3, FS_Subset, FS_CardinalityType

\* How a thread goes on within its request.
Moves(h, from, to) ==
    /\ handler[h].step = from /\ handler'[h].step = to /\ from # "idle"
    /\ handler'[h].request = handler[h].request
    /\ \A g \in Handlers \ {h} : handler'[g] = handler[g]

\* What a step that stores and counts nothing leaves as it was.
LEMMA MovesOn ==
    ASSUME Inv, Agreement, NEW h \in Handlers, NEW from, NEW to, Moves(h, from, to),
           from = "count" <=> to = "count",
           from \in {"count", "count_by_sensor"} <=> to \in {"count", "count_by_sensor"},
           from \in StoredSteps <=> to \in StoredSteps,
           (from \in EndSteps <=> to \in EndSteps) \/ handler[h].request \notin BadBodies,
           logged \subseteq logged', to \in LoggedSteps => handler[h].request \in logged',
           UNCHANGED <<data, counters, answered, stats>>
    PROVE  Agreement'
<1>1. \A g \in Handlers : handler'[g].request = handler[g].request
  BY DEF Moves
<1>2. \A g \in Handlers : /\ handler'[g].step = "count" <=> handler[g].step = "count"
                          /\ handler'[g].step \in {"count", "count_by_sensor"}
                                 <=> handler[g].step \in {"count", "count_by_sensor"}
                          /\ handler'[g].step \in StoredSteps <=> handler[g].step \in StoredSteps
  BY DEF Moves
<1>3. CountsTyped'
  BY DEF Agreement, CountsTyped, counters
<1>4. At({"count"})' = At({"count"}) /\ \A s : CountingOf(s)' = CountingOf(s)
  BY <1>1, <1>2 DEF At, CountingOf, SensorOf
<1>5. \A s : PositionsOf(s)' = PositionsOf(s)
  BY DEF PositionsOf
<1>6. Refused' = Refused
  <2>1. \A g \in Handlers : handler[g].request \in BadBodies =>
            (handler'[g].step \in EndSteps <=> handler[g].step \in EndSteps)
    BY DEF Moves
  <2> QED
    BY <1>1, <2>1 DEF Refused
<1>7. CountsAgree'
  BY <1>4, <1>5, <1>6 DEF Agreement, CountsAgree, counters
<1>8. \A q : Stored(q)' <=> Stored(q)
  BY <1>1, <1>2 DEF Stored
<1>9. StoredOnce'
  BY <1>8 DEF Agreement, StoredOnce
<1>10. AllLogged'
  BY DEF Agreement, AllLogged, Moves
<1>11. StatsAgree'
  BY DEF Agreement, StatsAgree
<1> QED
  BY <1>3, <1>7, <1>9, <1>10, <1>11 DEF Agreement

HandlerType == [step : Steps, request : Requests \cup {NoRequest}, old : Int]

LEMMA HandlerFacts ==
    ASSUME Inv
    PROVE  /\ handler \in [Handlers -> HandlerType]
           /\ \A h \in Handlers : handler[h].step # "idle" => handler[h].request \in Requests \ answered
           /\ \A h \in Handlers : handler[h].step \in CountingSteps => handler[h].request \in Readings
           /\ \A g, h \in Handlers :
                  g # h /\ handler[g].step # "idle" => handler[g].request # handler[h].request
<1>1. handler \in [Handlers -> HandlerType]
  BY DEF Inv, Typed, HandlerType
<1>2. \A h \in Handlers : handler[h].step \in CountingSteps => handler[h].request \in Readings
  BY DEF Inv, Private, CountingSteps
<1> QED
  BY <1>1, <1>2 DEF Inv, Private

LEMMA GotoMoves ==
    ASSUME Inv, NEW h \in Handlers, NEW from, NEW to, from # "idle", Goto(h, from, to)
    PROVE  Moves(h, from, to)
<1>1. handler \in [Handlers -> HandlerType]
  BY HandlerFacts
<1>2. handler' = [handler EXCEPT ![h].step = to] /\ handler[h].step = from
  BY DEF Goto
<1>3. handler'[h].step = to /\ handler'[h].request = handler[h].request
  BY <1>1, <1>2 DEF HandlerType
<1>4. \A g \in Handlers \ {h} : handler'[g] = handler[g]
  BY <1>1, <1>2
<1> QED
  BY <1>2, <1>3, <1>4 DEF Moves

LEMMA BeginAgrees ==
    ASSUME Inv, Agreement, NEW h \in Handlers, NEW q \in Requests, Begin(h, q)
    PROVE  Agreement'
<1>1. /\ handler[h] = Idle
      /\ handler' = [handler EXCEPT
             ![h] = [step |-> "increment", request |-> q, old |-> active_requests]]
      /\ UNCHANGED <<data, counters, logged, stats, answered>>
  BY DEF Begin
<1>2. /\ handler[h].step = "idle" /\ handler'[h].step = "increment"
      /\ \A g \in Handlers \ {h} : handler'[g] = handler[g]
  BY <1>1, HandlerFacts DEF Idle
<1>3. CountsTyped'
  BY <1>1 DEF Agreement, CountsTyped, counters
<1>4. At({"count"})' = At({"count"}) /\ \A s : CountingOf(s)' = CountingOf(s)
  <2>1. At({"count"})' = At({"count"})
    BY <1>2 DEF At
  <2>2. ASSUME NEW s, NEW g PROVE g \in CountingOf(s)' <=> g \in CountingOf(s)
    BY <1>2 DEF At, CountingOf, SensorOf
  <2>3. \A s : CountingOf(s)' = CountingOf(s)
    BY <2>2
  <2> QED
    BY <2>1, <2>3
<1>5. \A s : PositionsOf(s)' = PositionsOf(s)
  BY <1>1 DEF PositionsOf
<1>6. Refused' = Refused
  BY <1>1, <1>2 DEF Refused, EndSteps
<1>7. CountsAgree'
  BY <1>1, <1>4, <1>5, <1>6 DEF Agreement, CountsAgree, counters
<1>8. \A x : Stored(x)' <=> Stored(x)
  BY <1>1, <1>2 DEF Stored, StoredSteps, CountingSteps, EndSteps
<1>9. StoredOnce' /\ StatsAgree'
  BY <1>1, <1>8 DEF Agreement, StoredOnce, StatsAgree
<1>10. AllLogged'
  BY <1>1, <1>2 DEF Agreement, AllLogged, LoggedSteps
<1> QED
  BY <1>3, <1>7, <1>9, <1>10 DEF Agreement

LEMMA RefuseAgrees ==
    ASSUME Inv, Agreement, NEW h \in Handlers, Refuse(h)
    PROVE  Agreement'
<1> DEFINE q == handler[h].request
<1>1. /\ q \in BadBodies /\ Moves(h, "parse", "log")
      /\ exceptions_total' = exceptions_total + 1
      /\ UNCHANGED <<data, readings_total, readings_by_sensor, logged, stats, answered>>
  BY GotoMoves DEF Refuse, history
<1>2. \A g \in Handlers : handler'[g].request = handler[g].request
  BY <1>1 DEF Moves
<1>3. CountsTyped'
  BY <1>1 DEF Agreement, CountsTyped
<1>4. At({"count"})' = At({"count"}) /\ \A s : CountingOf(s)' = CountingOf(s)
  <2>1. At({"count"})' = At({"count"})
    BY <1>1 DEF At, Moves
  <2>2. ASSUME NEW s, NEW g PROVE g \in CountingOf(s)' <=> g \in CountingOf(s)
    BY <1>1, <1>2 DEF At, CountingOf, SensorOf, Moves
  <2>3. \A s : CountingOf(s)' = CountingOf(s)
    BY <2>2
  <2> QED
    BY <2>1, <2>3
<1>5. \A s : PositionsOf(s)' = PositionsOf(s)
  BY <1>1 DEF PositionsOf
<1>6. q \notin Refused /\ Refused' = Refused \cup {q}
  <2>1. q \notin answered /\ \A g \in Handlers \ {h} : handler[g].request # q
    BY <1>1, HandlerFacts DEF Moves
  <2>2. q \notin Refused
    BY <1>1, <2>1 DEF Refused, EndSteps, Moves
  <2>3. q \in Refused'
    BY <1>1, <1>2 DEF Refused, EndSteps, Moves
  <2>4. ASSUME NEW x, x # q PROVE x \in Refused' <=> x \in Refused
    BY <1>1, <1>2, <2>4 DEF Refused, EndSteps, Moves
  <2> QED
    BY <2>2, <2>3, <2>4
<1>7. CountsAgree'
  <2>1. IsFiniteSet(Refused') /\ exceptions_total' = Cardinality(Refused')
    BY <1>1, <1>6, OneElementMore DEF Agreement, CountsAgree
  <2> QED
    BY <1>1, <1>4, <1>5, <2>1 DEF Agreement, CountsAgree
<1>8. \A x : Stored(x)' <=> Stored(x)
  <2>1. q \notin Readings
    BY <1>1, IngestAssumption DEF IngestAssumption
  <2> QED
    BY <1>1, <1>2, <2>1 DEF Stored, Moves
<1>9. StoredOnce' /\ StatsAgree'
  BY <1>1, <1>8 DEF Agreement, StoredOnce, StatsAgree
<1>10. AllLogged'
  BY <1>1, <1>2 DEF Agreement, AllLogged, LoggedSteps, Moves
<1> QED
  BY <1>3, <1>7, <1>9, <1>10 DEF Agreement

LEMMA StoreAgrees ==
    ASSUME Inv, Agreement, NEW h \in Handlers, Store(h)
    PROVE  Agreement'
<1>0. PICK q : q = handler[h].request
  OBVIOUS
<1> DEFINE n == Len(data)
<1>1. /\ q \in Readings /\ Moves(h, "parse", "count") /\ handler[h].request = q
      /\ data' = Append(data, q)
      /\ UNCHANGED <<counters, logged, stats, answered>>
  BY <1>0, GotoMoves DEF Store, history
<1>2. \A g \in Handlers : handler'[g].request = handler[g].request
  BY <1>1 DEF Moves
<1>3. /\ n \in Nat /\ data' \in Seq(Readings) /\ Len(data') = n + 1
      /\ \A i \in 1 .. n : data'[i] = data[i]
      /\ data'[n + 1] = q
  BY <1>1 DEF Agreement, CountsTyped
<1> HIDE DEF n
<1>4. \A i : i \in 1 .. n + 1 <=> i \in 1 .. n \/ i = n + 1
  BY <1>3
<1>5. n + 1 \notin 1 .. n
  BY <1>3
<1>6. CountsTyped'
  BY <1>1, <1>3 DEF Agreement, CountsTyped, counters
<1>7. Len(data') = readings_total' + Cardinality(At({"count"})')
  <2>1. h \notin At({"count"}) /\ At({"count"})' = At({"count"}) \cup {h}
    BY <1>1 DEF At, Moves
  <2>2. Cardinality(At({"count"})') = Cardinality(At({"count"})) + 1
    BY <2>1, CountingIsFinite, OneElementMore
  <2>3. readings_total \in Nat /\ n = readings_total + Cardinality(At({"count"}))
    BY DEF Agreement, CountsTyped, CountsAgree, n
  <2>4. readings_total' = readings_total
    BY <1>1 DEF counters
  <2> QED
    BY <1>3, <2>2, <2>3, <2>4, CountingIsFinite
<1>8. ASSUME NEW s \in Sensors
      PROVE  Cardinality(PositionsOf(s)') = readings_by_sensor'[s] + Cardinality(CountingOf(s)')
  <2>1. /\ Cardinality(PositionsOf(s)) = readings_by_sensor[s] + Cardinality(CountingOf(s))
        /\ readings_by_sensor[s] \in Nat /\ readings_by_sensor' = readings_by_sensor
    BY <1>1 DEF Agreement, CountsTyped, CountsAgree, counters
  <2>2. CASE q[1] = s
    <3>1. n + 1 \notin PositionsOf(s) /\ PositionsOf(s)' = PositionsOf(s) \cup {n + 1}
      <4>1. n + 1 \notin PositionsOf(s)
        BY <1>5 DEF PositionsOf, n
      <4>2. n + 1 \in PositionsOf(s)'
        BY <1>3, <1>4, <2>2 DEF PositionsOf
      <4>3. ASSUME NEW i, i # n + 1 PROVE i \in PositionsOf(s)' <=> i \in PositionsOf(s)
        BY <1>3, <1>4, <4>3 DEF PositionsOf, n
      <4> QED
        BY <4>1, <4>2, <4>3
    <3>2. h \notin CountingOf(s) /\ CountingOf(s)' = CountingOf(s) \cup {h}
      <4>1. h \notin CountingOf(s)
        BY <1>1 DEF CountingOf, At, Moves
      <4>2. h \in CountingOf(s)'
        BY <1>1, <1>2, <2>2 DEF CountingOf, At, SensorOf, Moves
      <4>3. ASSUME NEW g, g # h PROVE g \in CountingOf(s)' <=> g \in CountingOf(s)
        BY <1>1, <4>3 DEF CountingOf, At, SensorOf, Moves
      <4> QED
        BY <4>1, <4>2, <4>3
    <3>3. /\ Cardinality(PositionsOf(s)') = Cardinality(PositionsOf(s)) + 1
          /\ Cardinality(CountingOf(s)') = Cardinality(CountingOf(s)) + 1
      BY <3>1, <3>2, CountingIsFinite, PositionsAreFinite, OneElementMore DEF Agreement
    <3>4. Cardinality(CountingOf(s)) \in Nat
      BY CountingIsFinite
    <3> QED
      BY <2>1, <3>3, <3>4
  <2>3. CASE q[1] # s
    <3>1. PositionsOf(s)' = PositionsOf(s)
      <4>1. ASSUME NEW i PROVE i \in PositionsOf(s)' <=> i \in PositionsOf(s)
        BY <1>3, <1>4, <1>5, <2>3 DEF PositionsOf, n
      <4> QED
        BY <4>1
    <3>2. CountingOf(s)' = CountingOf(s)
      <4>1. ASSUME NEW g PROVE g \in CountingOf(s)' <=> g \in CountingOf(s)
        BY <1>1, <1>2, <2>3 DEF CountingOf, At, SensorOf, Moves
      <4> QED
        BY <4>1
    <3> QED
      BY <2>1, <3>1, <3>2
  <2> QED
    BY <2>2, <2>3
<1>9. Refused' = Refused
  <2>1. q \notin BadBodies
    BY <1>1, IngestAssumption DEF IngestAssumption
  <2> QED
    BY <1>1, <1>2, <2>1 DEF Refused, Moves
<1>10. CountsAgree'
  BY <1>1, <1>7, <1>8, <1>9 DEF Agreement, CountsAgree, counters
<1>11. ~Stored(q)
  BY <1>1, HandlerFacts DEF Stored, StoredSteps, CountingSteps, EndSteps, Moves
<1>12. Stored(q)' /\ \A x : x # q => (Stored(x)' <=> Stored(x))
  <2>1. Stored(q)'
    BY <1>1, <1>2 DEF Stored, StoredSteps, CountingSteps, Moves
  <2>2. ASSUME NEW x, x # q PROVE Stored(x)' <=> Stored(x)
    BY <1>1, <1>2, <2>2 DEF Stored, Moves
  <2> QED
    BY <2>1, <2>2
<1>13. StoredOnce'
  <2>1. \A i \in 1 .. n : data[i] # q
    BY <1>11 DEF Agreement, StoredOnce, n
  <2>2. \A i, j \in 1 .. Len(data') : data'[i] = data'[j] => i = j
    <3>1. \A i, j \in 1 .. n : data[i] = data[j] => i = j
      BY DEF Agreement, StoredOnce, n
    <3>2. ASSUME NEW i \in 1 .. n + 1, NEW j \in 1 .. n + 1, data'[i] = data'[j]
          PROVE  i = j
      BY <1>3, <1>4, <2>1, <3>1, <3>2
    <3> QED
      BY <1>3, <3>2
  <2>3. \A x : (\E i \in 1 .. Len(data') : data'[i] = x)
                   <=> x = q \/ \E i \in 1 .. n : data[i] = x
    BY <1>3, <1>4
  <2>4. \A x : Stored(x) <=> \E i \in 1 .. n : data[i] = x
    BY DEF Agreement, StoredOnce, n
  <2>5. \A x : Stored(x)' <=> \E i \in 1 .. Len(data') : data'[i] = x
    BY <1>12, <2>3, <2>4
  <2> QED
    BY <2>2, <2>5 DEF StoredOnce
<1>14. AllLogged'
  BY <1>1, <1>2 DEF Agreement, AllLogged, LoggedSteps, Moves
<1>15. StatsAgree'
  <2>1. stats.averaged \in Nat /\ stats.averaged <= n
    BY DEF Agreement, CountsTyped, StatsAgree, n
  <2>2. stats.averaged <= Len(data')
    BY <1>3, <2>1
  <2> QED
    BY <1>1, <2>2 DEF Agreement, StatsAgree
<1> QED
  BY <1>6, <1>10, <1>13, <1>14, <1>15 DEF Agreement

LEMMA CountReadingAgrees ==
    ASSUME Inv, Agreement, NEW h \in Handlers, CountReading(h)
    PROVE  Agreement'
<1>1. /\ Moves(h, "count", "count_by_sensor")
      /\ readings_total' = readings_total + 1
      /\ UNCHANGED <<data, readings_by_sensor, exceptions_total, logged, stats, answered>>
  BY GotoMoves DEF CountReading, history
<1>2. \A g \in Handlers : handler'[g].request = handler[g].request
  BY <1>1 DEF Moves
<1>3. CountsTyped'
  BY <1>1 DEF Agreement, CountsTyped
<1>4. Len(data') = readings_total' + Cardinality(At({"count"})')
  <2>1. h \in At({"count"}) /\ At({"count"})' = At({"count"}) \ {h}
    BY <1>1 DEF At, Moves
  <2>2. Cardinality(At({"count"})) = Cardinality(At({"count"})') + 1 /\ Cardinality(At({"count"})') \in Nat
    BY <2>1, CountingIsFinite, OneElementLess
  <2>3. readings_total \in Nat /\ Len(data) = readings_total + Cardinality(At({"count"}))
    BY DEF Agreement, CountsTyped, CountsAgree
  <2> QED
    BY <1>1, <2>2, <2>3
<1>5. \A s : CountingOf(s)' = CountingOf(s)
  <2>1. ASSUME NEW s, NEW g PROVE g \in CountingOf(s)' <=> g \in CountingOf(s)
    BY <1>1, <1>2 DEF At, CountingOf, SensorOf, Moves
  <2> QED
    BY <2>1
<1>6. \A s : PositionsOf(s)' = PositionsOf(s)
  BY <1>1 DEF PositionsOf
<1>7. Refused' = Refused
  BY <1>1, <1>2 DEF Refused, EndSteps, Moves
<1>8. CountsAgree'
  BY <1>1, <1>4, <1>5, <1>6, <1>7 DEF Agreement, CountsAgree
<1>9. \A x : Stored(x)' <=> Stored(x)
  BY <1>1, <1>2 DEF Stored, StoredSteps, CountingSteps, Moves
<1>10. StoredOnce' /\ StatsAgree'
  BY <1>1, <1>9 DEF Agreement, StoredOnce, StatsAgree
<1>11. AllLogged'
  BY <1>1, <1>2 DEF Agreement, AllLogged, LoggedSteps, Moves
<1> QED
  BY <1>3, <1>8, <1>10, <1>11 DEF Agreement

LEMMA CountBySensorAgrees ==
    ASSUME Inv, Agreement, NEW h \in Handlers, CountBySensor(h)
    PROVE  Agreement'
<1>0. PICK of : of = SensorOf(h)
  OBVIOUS
<1>1. /\ Moves(h, "count_by_sensor", "set_temperature")
      /\ readings_by_sensor' = [readings_by_sensor EXCEPT ![of] = @ + 1]
      /\ UNCHANGED <<data, readings_total, exceptions_total, logged, stats, answered>>
  BY <1>0, GotoMoves DEF CountBySensor, OneMore, history
<1>2. \A g \in Handlers : handler'[g].request = handler[g].request
  BY <1>1 DEF Moves
<1>3. of \in Sensors
  <2>1. handler[h].request \in Readings
    BY <1>1, HandlerFacts DEF Moves, CountingSteps
  <2> QED
    BY <1>0, <2>1 DEF SensorOf, Sensors
<1>4. /\ readings_by_sensor \in [Sensors -> Nat] /\ readings_by_sensor' \in [Sensors -> Nat]
      /\ readings_by_sensor'[of] = readings_by_sensor[of] + 1
      /\ \A s \in Sensors \ {of} : readings_by_sensor'[s] = readings_by_sensor[s]
  BY <1>1, <1>3 DEF Agreement, CountsTyped
<1>5. CountsTyped'
  BY <1>1, <1>4 DEF Agreement, CountsTyped
<1>6. At({"count"})' = At({"count"})
  BY <1>1 DEF At, Moves
<1>7. \A s : PositionsOf(s)' = PositionsOf(s)
  BY <1>1 DEF PositionsOf
<1>8. ASSUME NEW s \in Sensors
      PROVE  Cardinality(PositionsOf(s)') = readings_by_sensor'[s] + Cardinality(CountingOf(s)')
  <2>1. /\ Cardinality(PositionsOf(s)) = readings_by_sensor[s] + Cardinality(CountingOf(s))
        /\ readings_by_sensor[s] \in Nat
    BY <1>4 DEF Agreement, CountsAgree
  <2>2. CASE s = of
    <3>1. h \in CountingOf(s) /\ CountingOf(s)' = CountingOf(s) \ {h}
      <4>1. h \in CountingOf(s) /\ h \notin CountingOf(s)'
        BY <1>0, <1>1, <2>2 DEF CountingOf, At, Moves
      <4>2. ASSUME NEW g, g # h PROVE g \in CountingOf(s)' <=> g \in CountingOf(s)
        BY <1>1, <4>2 DEF CountingOf, At, SensorOf, Moves
      <4> QED
        BY <4>1, <4>2
    <3>2. /\ Cardinality(CountingOf(s)) = Cardinality(CountingOf(s)') + 1
          /\ Cardinality(CountingOf(s)') \in Nat
      BY <3>1, CountingIsFinite, OneElementLess
    <3> QED
      BY <1>4, <1>7, <2>1, <2>2, <3>2
  <2>3. CASE s # of
    <3>1. ASSUME NEW g PROVE g \in CountingOf(s)' <=> g \in CountingOf(s)
      BY <1>0, <1>1, <1>2, <2>3 DEF CountingOf, At, SensorOf, Moves
    <3>2. CountingOf(s)' = CountingOf(s)
      BY <3>1
    <3> QED
      BY <1>4, <1>7, <2>1, <2>3, <3>2
  <2> QED
    BY <2>2, <2>3
<1>9. Refused' = Refused
  BY <1>1, <1>2 DEF Refused, EndSteps, Moves
<1>10. CountsAgree'
  BY <1>1, <1>6, <1>8, <1>9 DEF Agreement, CountsAgree
<1>11. \A x : Stored(x)' <=> Stored(x)
  BY <1>1, <1>2 DEF Stored, StoredSteps, CountingSteps, Moves
<1>12. StoredOnce' /\ StatsAgree'
  BY <1>1, <1>11 DEF Agreement, StoredOnce, StatsAgree
<1>13. AllLogged'
  BY <1>1, <1>2 DEF Agreement, AllLogged, LoggedSteps, Moves
<1> QED
  BY <1>5, <1>10, <1>12, <1>13 DEF Agreement

LEMMA ReturnAgrees ==
    ASSUME Inv, Agreement, NEW h \in Handlers, Return(h)
    PROVE  Agreement'
<1>0. PICK q : q = handler[h].request
  OBVIOUS
<1>1. /\ handler[h].step = "observe"
      /\ handler' = [handler EXCEPT ![h] = Idle]
      /\ answered' = answered \cup {q}
      /\ UNCHANGED <<data, counters, logged, stats>>
  BY <1>0 DEF Return
<1>2. /\ handler'[h] = Idle /\ handler'[h].step = "idle"
      /\ \A g \in Handlers \ {h} : handler'[g] = handler[g]
  BY <1>1, HandlerFacts DEF Idle
<1>3. q \in Requests
  BY <1>0, <1>1, HandlerFacts
<1>4. CountsTyped'
  BY <1>1, <1>3 DEF Agreement, CountsTyped, counters
<1>5. At({"count"})' = At({"count"}) /\ \A s : CountingOf(s)' = CountingOf(s)
  <2>1. At({"count"})' = At({"count"})
    BY <1>1, <1>2 DEF At
  <2>2. ASSUME NEW s, NEW g PROVE g \in CountingOf(s)' <=> g \in CountingOf(s)
    BY <1>1, <1>2 DEF At, CountingOf, SensorOf
  <2>3. \A s : CountingOf(s)' = CountingOf(s)
    BY <2>2
  <2> QED
    BY <2>1, <2>3
<1>6. \A s : PositionsOf(s)' = PositionsOf(s)
  BY <1>1 DEF PositionsOf
<1>7. \A x : /\ x \in answered' \/ (\E g \in Handlers : handler'[g].step \in EndSteps /\ handler'[g].request = x)
                 <=> x \in answered \/ (\E g \in Handlers : handler[g].step \in EndSteps /\ handler[g].request = x)
             /\ x \in answered' \/ (\E g \in Handlers : handler'[g].step \in StoredSteps /\ handler'[g].request = x)
                 <=> x \in answered \/ (\E g \in Handlers : handler[g].step \in StoredSteps /\ handler[g].request = x)
  BY <1>0, <1>1, <1>2 DEF StoredSteps, EndSteps, CountingSteps
<1>8. Refused' = Refused
  BY <1>7 DEF Refused
<1>9. CountsAgree'
  BY <1>1, <1>5, <1>6, <1>8 DEF Agreement, CountsAgree, counters
<1>10. \A x : Stored(x)' <=> Stored(x)
  BY <1>7 DEF Stored
<1>11. StoredOnce' /\ StatsAgree'
  BY <1>1, <1>10 DEF Agreement, StoredOnce, StatsAgree
<1>12. AllLogged'
  <2>1. q \in logged
    BY <1>0, <1>1 DEF Agreement, AllLogged, LoggedSteps
  <2> QED
    BY <1>1, <1>2, <2>1 DEF Agreement, AllLogged, LoggedSteps
<1> QED
  BY <1>4, <1>9, <1>11, <1>12 DEF Agreement

LEMMA ExchangeMoves ==
    ASSUME Inv, NEW h \in Handlers, NEW from, NEW amount, NEW to, from # "idle",
           CompareExchange(h, from, amount, to)
    PROVE  Moves(h, from, to) \/ Moves(h, from, from)
<1>1. CASE Goto(h, from, to)
  BY <1>1, GotoMoves
<1>2. CASE handler[h].step = from /\ handler' = [handler EXCEPT ![h].old = active_requests]
  <2>1. handler'[h].step = from /\ handler'[h].request = handler[h].request
    BY <1>2, HandlerFacts DEF HandlerType
  <2>2. \A g \in Handlers \ {h} : handler'[g] = handler[g]
    BY <1>2, HandlerFacts
  <2> QED
    BY <1>2, <2>1, <2>2 DEF Moves
<1> QED
  BY <1>1, <1>2 DEF CompareExchange

\* The loops of the gauge, the gauge of the sensor, the log and the timer.
LEMMA OtherStepsAgree ==
    ASSUME Inv, Agreement, NEW h \in Handlers,
           \/ Increment(h) \/ SetTemperature(h) \/ SetHumidity(h) \/ Log(h)
           \/ Load(h) \/ Decrement(h) \/ TimerReadsClock(h)
    PROVE  Agreement'
<1>1. UNCHANGED <<data, counters, answered, stats>> /\ logged \subseteq logged'
  BY DEF Increment, SetTemperature, SetHumidity, SetLast, Log, Load, Decrement, TimerReadsClock, GaugeUnchanged, history
<1>2. handler[h].step \in LoggedSteps => handler[h].request \in logged
  BY DEF Agreement, AllLogged
<1>3. CASE Increment(h)
  <2>1. Moves(h, "increment", "parse") \/ Moves(h, "increment", "increment")
    BY <1>3, ExchangeMoves DEF Increment
  <2> QED
    BY <1>1, <2>1, MovesOn DEF StoredSteps, CountingSteps, EndSteps, LoggedSteps
<1>4. CASE SetTemperature(h) \/ SetHumidity(h)
  <2>1. Moves(h, "set_temperature", "set_humidity") \/ Moves(h, "set_humidity", "log")
    BY <1>4, GotoMoves DEF SetTemperature, SetHumidity, SetLast
  <2>2. handler[h].request \notin BadBodies
    BY <2>1, HandlerFacts, IngestAssumption DEF Moves, CountingSteps, IngestAssumption
  <2> QED
    BY <1>1, <2>1, <2>2, MovesOn DEF StoredSteps, CountingSteps, EndSteps, LoggedSteps
<1>5. CASE Log(h)
  <2>1. Moves(h, "log", "load") /\ handler[h].request \in logged'
    BY <1>5, GotoMoves DEF Log
  <2> QED
    BY <1>1, <2>1, MovesOn DEF StoredSteps, CountingSteps, EndSteps, LoggedSteps
<1>6. CASE Load(h)
  <2>1. /\ handler[h].step = "load"
        /\ handler' = [handler EXCEPT ![h].step = "decrement", ![h].old = active_requests]
    BY <1>6 DEF Load
  <2>2. handler'[h].step = "decrement" /\ handler'[h].request = handler[h].request
    BY <2>1, HandlerFacts DEF HandlerType
  <2>3. \A g \in Handlers \ {h} : handler'[g] = handler[g]
    BY <2>1, HandlerFacts
  <2>4. Moves(h, "load", "decrement")
    BY <2>1, <2>2, <2>3 DEF Moves
  <2>5. handler[h].request \in logged'
    BY <1>1, <1>2, <2>1 DEF LoggedSteps
  <2> QED
    BY <1>1, <2>4, <2>5, MovesOn DEF StoredSteps, CountingSteps, EndSteps
<1>7. CASE Decrement(h)
  <2>1. Moves(h, "decrement", "timer") \/ Moves(h, "decrement", "decrement")
    BY <1>7, ExchangeMoves DEF Decrement
  <2>2. handler[h].request \in logged'
    BY <1>1, <1>2, <2>1 DEF LoggedSteps, Moves
  <2> QED
    BY <1>1, <2>1, <2>2, MovesOn DEF StoredSteps, CountingSteps, EndSteps
<1>8. CASE TimerReadsClock(h)
  <2>1. Moves(h, "timer", "observe")
    BY <1>8, GotoMoves DEF TimerReadsClock
  <2>2. handler[h].request \in logged'
    BY <1>1, <1>2, <2>1 DEF LoggedSteps, Moves
  <2> QED
    BY <1>1, <2>1, <2>2, MovesOn DEF StoredSteps, CountingSteps, EndSteps
<1> QED
  BY <1>3, <1>4, <1>5, <1>6, <1>7, <1>8

\* What the other threads do to it: the two reads of /stats.
LEMMA ReadersAgree ==
    ASSUME Inv, Agreement, Average \/ Size \/ Metrics \/ Tick \/ UNCHANGED vars
    PROVE  Agreement'
<1>1. UNCHANGED <<handler, data, readings_total, readings_by_sensor, exceptions_total, logged, answered>>
  BY DEF Average, Size, Metrics, Tick, OthersUnchanged, vars, counters, history
<1>2. stats' \in [averaged : Nat, count : Nat \cup {Unread}] /\ StatsAgree'
  <2>1. /\ Len(data) \in Nat
        /\ stats \in [averaged : Nat, count : Nat \cup {Unread}]
        /\ StatsAgree
    BY DEF Agreement, CountsTyped
  <2>2. CASE Average
    <3>1. stats'.averaged = Len(data) /\ stats'.count = Unread
      BY <2>2 DEF Average
    <3>2. stats' \in [averaged : Nat, count : Nat \cup {Unread}]
      BY <2>1, <2>2 DEF Average
    <3> QED
      BY <1>1, <2>1, <3>1, <3>2 DEF StatsAgree
  <2>3. CASE Size
    <3>1. stats'.averaged = stats.averaged /\ stats'.count = Len(data)
      BY <2>1, <2>3 DEF Size
    <3>2. stats' \in [averaged : Nat, count : Nat \cup {Unread}]
      BY <2>1, <2>3 DEF Size
    <3> QED
      BY <1>1, <2>1, <3>1, <3>2 DEF StatsAgree
  <2>4. CASE Metrics \/ Tick \/ UNCHANGED vars
    BY <1>1, <2>1, <2>4 DEF Metrics, Tick, vars, StatsAgree
  <2> QED
    BY <2>2, <2>3, <2>4
<1>3. CountsTyped'
  BY <1>1, <1>2 DEF Agreement, CountsTyped
<1>4. CountsAgree'
  BY <1>1 DEF Agreement, CountsAgree, At, PositionsOf, CountingOf, SensorOf, Refused
<1>5. StoredOnce' /\ AllLogged'
  BY <1>1 DEF Agreement, StoredOnce, Stored, AllLogged
<1> QED
  BY <1>2, <1>3, <1>4, <1>5 DEF Agreement

LEMMA InitAgrees == Init => Agreement
<1> SUFFICES ASSUME Init PROVE Agreement
  OBVIOUS
<1>1. /\ data = <<>> /\ Len(data) = 0 /\ \A h \in Handlers : handler[h].step = "idle"
      /\ readings_total = 0 /\ exceptions_total = 0
      /\ readings_by_sensor = [s \in Sensors |-> 0]
      /\ stats = [averaged |-> 0, count |-> 0]
      /\ logged = {} /\ answered = {}
  BY DEF Init, Idle
<1>2. CountsTyped
  BY <1>1 DEF CountsTyped
<1>3. CountsAgree
  <2>1. At({"count"}) = {} /\ \A s : CountingOf(s) = {} /\ PositionsOf(s) = {}
    BY <1>1 DEF At, CountingOf, PositionsOf
  <2>2. Refused = {}
    BY <1>1 DEF Refused, EndSteps
  <2>3. IsFiniteSet({}) /\ Cardinality({}) = 0
    BY FS_EmptySet
  <2>4. \A s \in Sensors : readings_by_sensor[s] = 0
    BY <1>1
  <2>5. \A s \in Sensors :
            Cardinality(PositionsOf(s)) = readings_by_sensor[s] + Cardinality(CountingOf(s))
    <3>1. ASSUME NEW s \in Sensors
          PROVE  Cardinality(PositionsOf(s)) = 0 /\ Cardinality(CountingOf(s)) = 0
      BY <2>1, <2>3
    <3> QED
      BY <2>4, <3>1
  <2>6. Len(data) = readings_total + Cardinality(At({"count"}))
    <3>1. Cardinality(At({"count"})) = 0
      BY <2>1, <2>3
    <3>2. Len(data) = 0 /\ readings_total = 0
      BY <1>1
    <3> QED
      BY <3>1, <3>2
  <2>7. IsFiniteSet(Refused) /\ exceptions_total = Cardinality(Refused)
    BY <1>1, <2>2, <2>3
  <2> QED
    BY <2>5, <2>6, <2>7 DEF CountsAgree
<1>4. StoredOnce
  BY <1>1 DEF StoredOnce, Stored, StoredSteps, CountingSteps, EndSteps
<1>5. AllLogged /\ StatsAgree
  BY <1>1 DEF AllLogged, LoggedSteps, StatsAgree
<1> QED
  BY <1>2, <1>3, <1>4, <1>5 DEF Agreement

LEMMA NextAgrees == Inv /\ Agreement /\ [Next]_vars => Agreement'
<1> SUFFICES ASSUME Inv, Agreement, [Next]_vars PROVE Agreement'
  OBVIOUS
<1>1. ASSUME NEW h \in Handlers, Post(h) PROVE Agreement'
  BY <1>1, BeginAgrees, RefuseAgrees, StoreAgrees, CountReadingAgrees, CountBySensorAgrees,
     ReturnAgrees, OtherStepsAgree DEF Post
<1> QED
  BY <1>1, ReadersAgree DEF Next

\* Whatever the interleaving of the threads: the store, the counters and the
\* answers agree.  An answered reading is in the store once, and was counted
\* and logged; the readings not yet counted are those of threads between
\* store.add and their counters; /stats never counts less than it averages over.
THEOREM AnswersAreRight == Spec => []AnswersAgree
<1>1. Inv /\ Agreement /\ [Next]_vars => (Inv /\ Agreement)'
  BY InvNext, NextAgrees
<1> QED
  BY InvInit, InitAgrees, <1>1, AgreementIsEnough, PTL DEF Spec

=============================================================================
