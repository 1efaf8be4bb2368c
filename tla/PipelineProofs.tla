--------------------------- MODULE PipelineProofs ---------------------------
(***************************************************************************)
(* Pipeline for any number of producers, workers, sinks and events, any    *)
(* policy, any sizes: it is well typed, loses and duplicates no event,     *)
(* keeps what it promises about batches and stop, and implements Delivery. *)
(***************************************************************************)
EXTENDS Pipeline, SequenceTheorems, FiniteSetTheorems, TLAPS

-----------------------------------------------------------------------------
(* The events in a sequence.                                               *)

\* EventsIn and IsInjective, read index by index.
ByIndex(s) ==
    /\ \A e : e \in EventsIn(s) <=> \E i \in 1 .. Len(s) : s[i] = e
    /\ IsInjective(s) <=> \A i, j \in 1 .. Len(s) : s[i] = s[j] => i = j

LEMMA SeqFacts ==
    ASSUME NEW s \in Seq(Events)
    PROVE  /\ Len(s) \in Nat
           /\ \A i \in 1 .. Len(s) : s[i] \in Events
           /\ ByIndex(s)
  <1>1. Len(s) \in Nat /\ DOMAIN s = 1 .. Len(s) /\ \A i \in 1 .. Len(s) : s[i] \in Events
    OBVIOUS
  <1>2. \A e : e \in EventsIn(s) <=> \E i \in 1 .. Len(s) : s[i] = e
    BY <1>1 DEF EventsIn
  <1>3. IsInjective(s) <=> \A i, j \in 1 .. Len(s) : s[i] = s[j] => i = j
    BY <1>1, Zenon DEF IsInjective
  <1>4. QED
    BY <1>1, <1>2, <1>3 DEF ByIndex

LEMMA EventsInEmpty == EventsIn(<<>>) = {} /\ <<>> \in Seq(Events) /\ IsInjective(<<>>)
  <1>1. <<>> \in Seq(Events) /\ Len(<<>>) = 0
    BY EmptySeq
  <1>2. EventsIn(<<>>) = {}
    BY DEF EventsIn
  <1>3. IsInjective(<<>>)
    BY DEF IsInjective
  <1>4. QED
    BY <1>1, <1>2, <1>3

LEMMA EventsInAppend ==
    ASSUME NEW s \in Seq(Events), NEW e \in Events
    PROVE  /\ Append(s, e) \in Seq(Events)
           /\ Len(Append(s, e)) = Len(s) + 1
           /\ EventsIn(Append(s, e)) = EventsIn(s) \cup {e}
           /\ IsInjective(s) /\ e \notin EventsIn(s) => IsInjective(Append(s, e))
  <1>1. /\ Append(s, e) \in Seq(Events) /\ Len(Append(s, e)) = Len(s) + 1
        /\ Append(s, e)[Len(s) + 1] = e
        /\ \A i \in 1 .. Len(s) : Append(s, e)[i] = s[i]
    BY AppendProperties
  <1>2. \A i \in 1 .. Len(s) + 1 : i \in 1 .. Len(s) \/ i = Len(s) + 1
    BY SeqFacts
  <1>i. ByIndex(s) /\ ByIndex(Append(s, e))
    BY <1>1, SeqFacts
  <1>3. EventsIn(Append(s, e)) = EventsIn(s) \cup {e}
    BY <1>1, <1>2, <1>i, SeqFacts DEF ByIndex
  <1>4. IsInjective(s) /\ e \notin EventsIn(s) => IsInjective(Append(s, e))
    BY <1>1, <1>2, <1>i, SeqFacts DEF ByIndex
  <1>5. QED
    BY <1>1, <1>3, <1>4

LEMMA EventsInTail ==
    ASSUME NEW s \in Seq(Events), s # <<>>
    PROVE  /\ Head(s) \in Events /\ Tail(s) \in Seq(Events)
           /\ Len(s) \in Nat /\ Len(s) >= 1 /\ Len(Tail(s)) = Len(s) - 1
           /\ EventsIn(s) = {Head(s)} \cup EventsIn(Tail(s))
           /\ IsInjective(s) => IsInjective(Tail(s)) /\ Head(s) \notin EventsIn(Tail(s))
  <1>1. Len(s) \in Nat /\ Len(s) >= 1 /\ Head(s) = s[1] /\ Head(s) \in Events
    OBVIOUS
  <1>2. /\ Tail(s) \in Seq(Events) /\ Len(Tail(s)) = Len(s) - 1
        /\ \A i \in 1 .. Len(s) - 1 : Tail(s)[i] = s[i + 1]
    BY <1>1
  <1>3. \A i \in 1 .. Len(s) : i = 1 \/ (i - 1 \in 1 .. Len(s) - 1 /\ s[i] = Tail(s)[i - 1])
    BY <1>1, <1>2
  <1>i. ByIndex(s) /\ ByIndex(Tail(s))
    BY <1>2, SeqFacts
  <1>4. EventsIn(s) = {Head(s)} \cup EventsIn(Tail(s))
    <2>1. \A i \in 1 .. Len(s) : s[i] = Head(s) \/ s[i] \in EventsIn(Tail(s))
      <3>1. \A i \in 1 .. Len(Tail(s)) : Tail(s)[i] \in EventsIn(Tail(s))
        BY <1>i DEF ByIndex
      <3>2. QED
        BY <1>1, <1>2, <1>3, <3>1
    <2>2. \A i \in 1 .. Len(s) - 1 : Tail(s)[i] \in EventsIn(s)
      <3>1. \A i \in 1 .. Len(s) - 1 : i + 1 \in 1 .. Len(s)
        BY <1>1
      <3>2. QED
        BY <1>2, <1>i, <3>1 DEF ByIndex
    <2>3. Head(s) \in EventsIn(s)
      BY <1>1, <1>i DEF ByIndex
    <2>4. QED
      BY <1>2, <1>i, <2>1, <2>2, <2>3 DEF ByIndex
  <1>5. IsInjective(s) => IsInjective(Tail(s)) /\ Head(s) \notin EventsIn(Tail(s))
    BY <1>1, <1>2, <1>i DEF ByIndex
  <1>6. QED
    BY <1>1, <1>2, <1>4, <1>5

LEMMA EventsInConcat ==
    ASSUME NEW s \in Seq(Events), NEW t \in Seq(Events)
    PROVE  /\ s \o t \in Seq(Events)
           /\ EventsIn(s \o t) = EventsIn(s) \cup EventsIn(t)
           /\ IsInjective(s) /\ IsInjective(t) /\ EventsIn(s) \cap EventsIn(t) = {} =>
                  IsInjective(s \o t)
  <1>1. /\ s \o t \in Seq(Events) /\ Len(s \o t) = Len(s) + Len(t)
        /\ Len(s) \in Nat /\ Len(t) \in Nat
        /\ \A i \in 1 .. Len(s) : (s \o t)[i] = s[i]
        /\ \A i \in 1 .. Len(t) : (s \o t)[Len(s) + i] = t[i]
    OBVIOUS
  <1>2. \A i \in 1 .. Len(s) + Len(t) :
            \/ i \in 1 .. Len(s) /\ (s \o t)[i] = s[i]
            \/ i - Len(s) \in 1 .. Len(t) /\ (s \o t)[i] = t[i - Len(s)]
    BY <1>1
  <1>i. ByIndex(s) /\ ByIndex(t) /\ ByIndex(s \o t)
    BY <1>1, SeqFacts
  <1>3. EventsIn(s \o t) = EventsIn(s) \cup EventsIn(t)
    <2>1. \A e : e \in EventsIn(s) => e \in EventsIn(s \o t)
      BY <1>1, <1>i DEF ByIndex
    <2>2. \A e : e \in EventsIn(t) => e \in EventsIn(s \o t)
      <3>1. \A i \in 1 .. Len(t) : Len(s) + i \in 1 .. Len(s \o t)
        BY <1>1
      <3>2. \A i \in 1 .. Len(t) : t[i] \in EventsIn(s \o t)
        BY <1>1, <1>i, <3>1 DEF ByIndex
      <3>3. QED
        BY <1>i, <3>2 DEF ByIndex
    <2>3. \A e : e \in EventsIn(s \o t) => e \in EventsIn(s) \/ e \in EventsIn(t)
      BY <1>1, <1>2, <1>i DEF ByIndex
    <2>4. QED
      BY <2>1, <2>2, <2>3
  <1>4. ASSUME IsInjective(s), IsInjective(t), EventsIn(s) \cap EventsIn(t) = {}
        PROVE  IsInjective(s \o t)
    <2>1. ASSUME NEW i \in 1 .. Len(s) + Len(t), NEW j \in 1 .. Len(s) + Len(t),
                 (s \o t)[i] = (s \o t)[j]
          PROVE  i = j
      <3>1. /\ i \in 1 .. Len(s) => (s \o t)[i] \in EventsIn(s)
            /\ i - Len(s) \in 1 .. Len(t) => (s \o t)[i] \in EventsIn(t)
        BY <1>1, <1>2, <1>i DEF ByIndex
      <3>2. /\ j \in 1 .. Len(s) => (s \o t)[j] \in EventsIn(s)
            /\ j - Len(s) \in 1 .. Len(t) => (s \o t)[j] \in EventsIn(t)
        BY <1>1, <1>2, <1>i DEF ByIndex
      <3>3. \/ i \in 1 .. Len(s) /\ j \in 1 .. Len(s) /\ s[i] = s[j]
            \/ i - Len(s) \in 1 .. Len(t) /\ j - Len(s) \in 1 .. Len(t) /\ t[i - Len(s)] = t[j - Len(s)]
        BY <1>2, <1>4, <2>1, <3>1, <3>2
      <3>4. i - Len(s) = j - Len(s) => i = j
        BY <1>1
      <3>5. QED
        BY <1>4, <3>3, <3>4, <1>i DEF ByIndex
    <2>2. QED
      BY <1>1, <2>1, <1>i DEF ByIndex
  <1>5. QED
    BY <1>1, <1>3, <1>4

-----------------------------------------------------------------------------
(* Types.                                                                  *)

\* A producer inside enqueue holds a pending event...
Busy ==
    \A p \in Producers :
        ~At(p, "idle") => producer[p].event \in Events /\ fate[producer[p].event] = "pending"

\* ... of its own.
Alone ==
    \A p, q \in Producers :
        ~At(p, "idle") /\ ~At(q, "idle") /\ producer[p].event = producer[q].event => p = q

Typed == TypeOK /\ Busy /\ Alone

ProducerType == [step : ProducerSteps, event : Events \cup {NoEvent}, evicting : BOOLEAN]

LEMMA ConstantFacts ==
    /\ MaxSize \in Nat /\ MaxSize >= 1
    /\ Outputs \subseteq Nat /\ 0 \in Outputs /\ NumSinks \in Outputs /\ NumSinks \in Nat
  BY PipelineAssumption DEF MaxSize, MaxSizeOf, Outputs

\* What a push leaves behind: the event was refused, added, or added in the
\* place of the oldest.
LEMMA PushCases ==
    ASSUME TypeOK, NEW p \in Producers, NEW e \in Events, NEW r,
           r = PushResult(queue, closed, Policy, MaxSize, e)
    PROVE  /\ r.ok \in BOOLEAN
           /\ \/ /\ ~r.ok
                 /\ r.items = queue
              \/ /\ r.ok /\ r.dropped = 0
                 /\ r.items = Append(queue, e)
                 /\ Len(queue) < MaxSize
              \/ /\ r.ok /\ r.dropped = 1
                 /\ queue # <<>>
                 /\ r.items = Append(Tail(queue), e)
  <1>1. queue \in Seq(Events) /\ Len(queue) \in Nat /\ closed \in BOOLEAN
    BY DEF TypeOK
  <1>2. Len(queue) >= MaxSize => queue # <<>>
    BY <1>1, ConstantFacts
  <1> DEFINE full == Len(queue) >= MaxSize
             taken == ~closed /\ (~full \/ Policy = "DropOldest")
  <1>3. /\ r.items = IF taken THEN Append(IF full THEN Tail(queue) ELSE queue, e) ELSE queue
        /\ r.ok = taken
        /\ r.dropped = IF ~closed /\ full THEN 1 ELSE 0
    BY DEF PushResult
  <1>4. CASE ~taken
    BY <1>3, <1>4
  <1>5. CASE taken /\ full
    BY <1>2, <1>3, <1>5
  <1>6. CASE taken /\ ~full
    <2>1. r.items = Append(queue, e) /\ r.dropped = 0
      BY <1>3, <1>6
    <2>2. r.ok = TRUE
      BY <1>3, <1>6
    <2>3. Len(queue) < MaxSize
      BY <1>1, <1>6, ConstantFacts
    <2>4. QED
      BY <2>1, <2>2, <2>3
  <1>7. QED
    BY <1>4, <1>5, <1>6

\* The three kinds of steps of enqueue: what they do to the producers.
LEMMA GotoTyped ==
    ASSUME Typed, NEW p \in Producers, NEW step \in ProducerSteps, NEW b \in BOOLEAN,
           ~At(p, "idle"), Goto(p, step, producer[p].event, b), UNCHANGED fate
    PROVE  producer' \in [Producers -> ProducerType] /\ Busy' /\ Alone'
  <1>1. producer \in [Producers -> ProducerType]
    BY DEF Typed, TypeOK, ProducerType
  <1>2. producer[p].event \in Events
    BY DEF Typed, Busy
  <1>3. /\ producer' \in [Producers -> ProducerType]
        /\ \A q \in Producers : producer'[q].event = producer[q].event
        /\ \A q \in Producers : q # p => producer'[q] = producer[q]
    BY <1>1, <1>2 DEF Goto, Calling, ProducerType
  <1>4. \A q \in Producers : ~(producer'[q].step = "idle") => ~(producer[q].step = "idle")
    BY <1>3 DEF At
  <1>5. QED
    BY <1>3, <1>4 DEF Typed, Busy, Alone, At

LEMMA ReturnTyped ==
    ASSUME Typed, NEW p \in Producers, NEW e \in Events, NEW f \in Fates,
           \/ ~At(p, "idle") /\ e = producer[p].event
           \/ fate[e] = "new",
           Return(p, e, f)
    PROVE  /\ producer' \in [Producers -> ProducerType] /\ fate' \in [Events -> Fates]
           /\ Busy' /\ Alone'
  <1>1. producer \in [Producers -> ProducerType] /\ fate \in [Events -> Fates]
    BY DEF Typed, TypeOK, ProducerType
  <1>2. /\ producer' \in [Producers -> ProducerType] /\ fate' \in [Events -> Fates]
        /\ producer'[p].step = "idle"
        /\ \A q \in Producers : q # p => producer'[q] = producer[q]
        /\ \A x \in Events : x # e => fate'[x] = fate[x]
    BY <1>1 DEF Return, Idle, Calling, ProducerType, ProducerSteps
  <1>3. \A q \in Producers : q # p /\ ~At(q, "idle") => producer[q].event # e
    BY DEF Typed, Busy, Alone
  <1>4. Busy'
    BY <1>2, <1>3 DEF Typed, Busy, At
  <1>5. Alone'
    BY <1>2 DEF Typed, Alone, At
  <1>6. QED
    BY <1>2, <1>4, <1>5

LEMMA InitTyped == Init => Typed
  <1> SUFFICES ASSUME Init PROVE Typed
    OBVIOUS
  <1>1. queue \in Seq(Events) /\ Len(queue) <= MaxSize
    BY EventsInEmpty, ConstantFacts DEF Init
  <1>2. producer \in [Producers -> ProducerType]
    BY DEF Init, Idle, Calling, ProducerType, ProducerSteps
  <1>3. batch \in [Workers -> Seq(Events)] /\ out \in [Outputs -> Seq(Events)]
    BY EventsInEmpty DEF Init
  <1>4. worker \in [Workers -> WorkerSteps] /\ control \in ControlSteps /\ fate \in [Events -> Fates]
    BY DEF Init, WorkerSteps, ControlSteps, Fates
  <1>5. TypeOK
    BY <1>1, <1>2, <1>3, <1>4, ConstantFacts, PipelineAssumption DEF Init, TypeOK, ProducerType
  <1>6. Busy /\ Alone
    BY DEF Init, Busy, Alone, At, Idle, Calling
  <1>7. QED
    BY <1>5, <1>6 DEF Typed

LEMMA EnqueueTyped ==
    ASSUME Typed, NEW p \in Producers, Enqueue(p)
    PROVE  Typed'
  <1> DEFINE e == producer[p].event
  <1>0. producer \in [Producers -> ProducerType]
    BY DEF Typed, TypeOK, ProducerType
  <1>1. CASE SampledOut(p)
    <2>1. ~At(p, "idle") /\ e \in Events /\ "sampled" \in Fates
      BY <1>1 DEF SampledOut, At, Fates, Typed, Busy
    <2>2. Return(p, e, "sampled")
      BY <1>1 DEF SampledOut
    <2>3. producer' \in [Producers -> ProducerType] /\ fate' \in [Events -> Fates] /\ Busy' /\ Alone'
      BY <2>1, <2>2, ReturnTyped
    <2>4. QED
      BY <1>1, <2>3 DEF SampledOut, Typed, TypeOK, ProducerType, workerVars, controlVars, queueVars
  <1>2. CASE RateLimited(p)
    <2>1. ~At(p, "idle") /\ e \in Events /\ "limited" \in Fates
      BY <1>2 DEF RateLimited, At, Fates, Typed, Busy
    <2>2. Return(p, e, "limited")
      BY <1>2 DEF RateLimited
    <2>3. producer' \in [Producers -> ProducerType] /\ fate' \in [Events -> Fates] /\ Busy' /\ Alone'
      BY <2>1, <2>2, ReturnTyped
    <2>4. QED
      BY <1>2, <2>3 DEF RateLimited, Typed, TypeOK, ProducerType, workerVars, controlVars, queueVars
  <1>3. CASE TryPush(p)
    <2> DEFINE r == PushResult(queue, closed, Policy, MaxSize, e)
               evicts == r.ok /\ r.dropped = 1
               step == IF r.ok THEN "count_accepted" ELSE "count_dropped"
    <2>1. ~At(p, "idle") /\ e \in Events /\ step \in ProducerSteps
      BY <1>3 DEF TryPush, At, Typed, Busy, ProducerSteps
    <2>2. /\ queue' = r.items
          /\ evicted' = IF evicts THEN evicted \cup {Head(queue)} ELSE evicted
          /\ Goto(p, step, e, evicts)
          /\ UNCHANGED fate
      BY <1>3 DEF TryPush
    <2>3. queue \in Seq(Events) /\ Len(queue) \in Nat /\ Len(queue) <= MaxSize
      BY DEF Typed, TypeOK
    <2>4. /\ queue' \in Seq(Events) /\ Len(queue') <= MaxSize
          /\ evicted' \subseteq Events
      <3>1. evicted \subseteq Events /\ TypeOK
        BY DEF Typed, TypeOK
      <3>2. CASE ~r.ok
        <4>1. queue' = queue /\ evicted' = evicted
          BY <2>1, <2>2, <3>1, <3>2, PushCases
        <4>2. QED
          BY <2>3, <3>1, <4>1
      <3>3. CASE r.ok /\ r.dropped = 0
        <4>1. queue' = Append(queue, e) /\ Len(queue) < MaxSize /\ evicted' = evicted
          BY <2>1, <2>2, <3>1, <3>3, PushCases
        <4>2. QED
          BY <2>1, <2>3, <3>1, <4>1, EventsInAppend, ConstantFacts
      <3>4. CASE r.ok /\ r.dropped = 1
        <4>1. queue' = Append(Tail(queue), e) /\ queue # <<>> /\ evicted' = evicted \cup {Head(queue)}
          BY <2>1, <2>2, <3>1, <3>4, PushCases
        <4>2. QED
          BY <2>1, <2>3, <3>1, <4>1, EventsInAppend, EventsInTail, ConstantFacts
      <3>5. QED
        BY <2>1, <3>1, <3>2, <3>3, <3>4, PushCases
    <2>5. evicts \in BOOLEAN
      BY <2>1, PushCases DEF Typed
    <2>6. producer' \in [Producers -> ProducerType] /\ Busy' /\ Alone'
      BY <2>1, <2>2, <2>5, GotoTyped
    <2>7. QED
      BY <1>3, <2>4, <2>6 DEF TryPush, Typed, TypeOK, ProducerType, workerVars, controlVars, counters
  <1>4. CASE CountAccepted(p)
    <2>1. /\ ~At(p, "idle") /\ e \in Events
          /\ "accepted" \in Fates /\ "count_dropped" \in ProducerSteps
      BY <1>4 DEF CountAccepted, At, Fates, ProducerSteps, Typed, Busy
    <2>2. \/ Goto(p, "count_dropped", e, TRUE) /\ UNCHANGED fate
          \/ Return(p, e, "accepted")
      BY <1>4 DEF CountAccepted
    <2>3. producer' \in [Producers -> ProducerType] /\ fate' \in [Events -> Fates] /\ Busy' /\ Alone'
      <3>1. CASE Goto(p, "count_dropped", e, TRUE) /\ UNCHANGED fate
        BY <2>1, <3>1, GotoTyped DEF Typed, TypeOK
      <3>2. CASE Return(p, e, "accepted")
        BY <2>1, <3>2, ReturnTyped
      <3>3. QED
        BY <2>2, <3>1, <3>2
    <2>4. QED
      BY <1>4, <2>3 DEF CountAccepted, Typed, TypeOK, ProducerType, workerVars, controlVars, queueVars
  <1>5. CASE CountDropped(p)
    <2> DEFINE f == IF producer[p].evicting THEN "accepted" ELSE "dropped"
    <2>1. ~At(p, "idle") /\ e \in Events /\ f \in Fates
      BY <1>5 DEF CountDropped, At, Fates, Typed, Busy
    <2>2. Return(p, e, f)
      BY <1>5 DEF CountDropped
    <2>3. producer' \in [Producers -> ProducerType] /\ fate' \in [Events -> Fates] /\ Busy' /\ Alone'
      BY <2>1, <2>2, ReturnTyped
    <2>4. QED
      BY <1>5, <2>3 DEF CountDropped, Typed, TypeOK, ProducerType, workerVars, controlVars, queueVars
  <1>6. QED
    BY <1>1, <1>2, <1>3, <1>4, <1>5 DEF Enqueue

LEMMA EnqueueBeginsTyped ==
    ASSUME Typed, NEW p \in Producers, NEW e \in Events,
           EnqueueRefused(p, e) \/ EnqueueBegins(p, e)
    PROVE  Typed'
  <1>1. CASE EnqueueRefused(p, e)
    <2>1. fate[e] = "new" /\ "refused" \in Fates
      BY <1>1 DEF EnqueueRefused, Fates
    <2>2. QED
      BY <1>1, <2>1, ReturnTyped
         DEF EnqueueRefused, Typed, TypeOK, ProducerType, workerVars, controlVars, queueVars, counters
  <1>2. CASE EnqueueBegins(p, e)
    <2>1. producer \in [Producers -> ProducerType] /\ fate \in [Events -> Fates]
      BY DEF Typed, TypeOK, ProducerType
    <2>2. PICK step \in {"count_sampled", "count_limited", "push"} : Goto(p, step, e, FALSE)
      BY <1>2 DEF EnqueueBegins
    <2>3. /\ producer' \in [Producers -> ProducerType]
          /\ producer'[p].event = e /\ producer'[p].step # "idle"
          /\ \A q \in Producers : q # p => producer'[q] = producer[q]
      BY <2>1, <2>2 DEF Goto, Calling, ProducerType, ProducerSteps
    <2>4. /\ fate[e] = "new" /\ fate' \in [Events -> Fates]
          /\ fate'[e] = "pending"
          /\ \A x \in Events : x # e => fate'[x] = fate[x]
      BY <1>2, <2>1 DEF EnqueueBegins, Fates
    <2>5. \A q \in Producers : ~At(q, "idle") => producer[q].event # e
      BY <2>4 DEF Typed, Busy
    <2>6. Busy'
      BY <2>3, <2>4, <2>5 DEF Typed, Busy, At
    <2>7. Alone'
      BY <2>3, <2>5 DEF Typed, Alone, At
    <2>8. QED
      BY <1>2, <2>3, <2>4, <2>6, <2>7
         DEF EnqueueBegins, Typed, TypeOK, ProducerType, workerVars, controlVars, queueVars, counters
  <1>3. QED
    BY <1>1, <1>2

\* A step of a worker or of the owner leaves the producers alone.
LEMMA ProducersUnchanged ==
    ASSUME Typed, UNCHANGED <<producer, fate>>
    PROVE  Busy' /\ Alone'
  BY DEF Typed, Busy, Alone, At

LEMMA TakeFrontTyped ==
    ASSUME TypeOK, NEW w \in Workers, TakeFront(w)
    PROVE  /\ queue' \in Seq(Events) /\ Len(queue') <= MaxSize
           /\ batch' \in [Workers -> Seq(Events)]
           /\ batch'[w] = Append(batch[w], Head(queue)) /\ Len(batch'[w]) = Len(batch[w]) + 1
           /\ \A v \in Workers : v # w => batch'[v] = batch[v]
  <1>1. /\ queue \in Seq(Events) /\ queue # <<>> /\ Len(queue) <= MaxSize
        /\ batch \in [Workers -> Seq(Events)]
    BY DEF TypeOK, TakeFront
  <1>2. Head(queue) \in Events /\ Append(batch[w], Head(queue)) \in Seq(Events)
    BY <1>1, EventsInTail, EventsInAppend
  <1>3. QED
    BY <1>1, <1>2, EventsInTail, EventsInAppend, ConstantFacts DEF TakeFront

LEMMA WorkTyped ==
    ASSUME Typed, NEW w \in Workers, Work(w)
    PROVE  Typed'
  <1>0. UNCHANGED <<producer, fate>> /\ UNCHANGED <<running, closed, batch_size, counters, controlVars, evicted>>
    BY DEF Work, Loop, LeaveLoop, PopFirst, PopNothing, Fill, Filled, Drain, Drained, HandOver,
           WorkerUnchanged
  <1>1. /\ worker \in [Workers -> WorkerSteps] /\ limit \in [Workers -> Nat]
        /\ sent \in [Workers -> Outputs] /\ out \in [Outputs -> Seq(Events)]
        /\ batch \in [Workers -> Seq(Events)] /\ batch_size \in Nat
    BY DEF Typed, TypeOK
  <1>2. CASE Loop(w) \/ LeaveLoop(w) \/ PopNothing(w) \/ Filled(w) \/ Drained(w)
    <2>1. worker' \in [Workers -> WorkerSteps] /\ limit' \in [Workers -> Nat]
      BY <1>1, <1>2 DEF Loop, LeaveLoop, PopNothing, Filled, Drained, WorkerGoto, WorkerSteps
    <2>2. UNCHANGED <<queue, batch, sent, out>>
      BY <1>2 DEF Loop, LeaveLoop, PopNothing, Filled, Drained
    <2>3. QED
      BY <1>0, <2>1, <2>2, ProducersUnchanged DEF Typed, TypeOK, counters, controlVars
  <1>3. CASE PopFirst(w) \/ Fill(w) \/ Drain(w)
    <2>1. worker' \in [Workers -> WorkerSteps] /\ UNCHANGED <<limit, sent, out>> /\ TakeFront(w)
      BY <1>1, <1>3 DEF PopFirst, Fill, Drain, WorkerGoto, WorkerSteps
    <2>2. QED
      BY <1>0, <2>1, TakeFrontTyped, ProducersUnchanged DEF Typed, TypeOK, counters, controlVars
  <1>4. CASE HandOver(w)
    <2>1. out' \in [Outputs -> Seq(Events)]
      BY <1>1, <1>4, EventsInConcat DEF HandOver
    <2>2. CASE sent[w] < NumSinks /\ sent' = [sent EXCEPT ![w] = @ + 1] /\ UNCHANGED <<worker, batch>>
      <3>1. sent[w] + 1 \in Outputs
        BY <1>1, <2>2, ConstantFacts DEF Outputs
      <3>2. QED
        BY <1>0, <1>1, <1>4, <2>1, <2>2, <3>1, ProducersUnchanged DEF HandOver, Typed, TypeOK, counters, controlVars
    <2>3. CASE sent' = [sent EXCEPT ![w] = 0] /\ ClearBatch(w) /\ UNCHANGED <<queue, limit>>
      <3>1. sent' \in [Workers -> Outputs] /\ batch' \in [Workers -> Seq(Events)]
        BY <1>1, <2>3, EventsInEmpty, ConstantFacts DEF ClearBatch
      <3>2. worker' \in [Workers -> WorkerSteps]
        BY <1>1, <1>4 DEF HandOver, WorkerSteps
      <3>3. QED
        BY <1>0, <2>1, <2>3, <3>1, <3>2, ProducersUnchanged DEF Typed, TypeOK, counters, controlVars
    <2>4. QED
      BY <1>4, <2>2, <2>3 DEF HandOver
  <1>5. QED
    BY <1>2, <1>3, <1>4 DEF Work

LEMMA ControlTyped ==
    ASSUME Typed, Start \/ Stop \/ \E b \in RuntimeBatchSizes : UpdateRuntimeConfig(b)
    PROVE  Typed'
  <1>1. CASE Start
    BY <1>1, ProducersUnchanged
       DEF Start, Control, ControlUnchanged, counters, Typed, TypeOK, ControlSteps, WorkerSteps
  <1>2. CASE Stop
    <2>1. racing' \subseteq Events
      <3>1. \A p \in Pushing : producer[p].event \in Events
        BY DEF Pushing, At, Typed, Busy
      <3>2. RacingNow => racing' \subseteq Events
        BY <3>1 DEF RacingNow
      <3>3. QED
        BY <1>2, <3>2 DEF Stop, StopBegins, CloseQueue, JoinWorkers, StopSinks, Typed, TypeOK
    <2>2. QED
      BY <1>2, <2>1, ProducersUnchanged
         DEF Stop, StopBegins, CloseQueue, JoinWorkers, StopSinks, Control, ControlUnchanged, counters,
             Typed, TypeOK, ControlSteps
  <1>3. CASE \E b \in RuntimeBatchSizes : UpdateRuntimeConfig(b)
    BY <1>3, ProducersUnchanged, PipelineAssumption
       DEF UpdateRuntimeConfig, queueVars, workerVars, controlVars, counters, Typed, TypeOK
  <1>4. QED
    BY <1>1, <1>2, <1>3

LEMMA NextTyped == Typed /\ [Next]_vars => Typed'
  <1> SUFFICES ASSUME Typed, [Next]_vars PROVE Typed'
    OBVIOUS
  <1>1. CASE UNCHANGED vars
    BY <1>1 DEF vars, queueVars, counters, workerVars, controlVars, Typed, TypeOK, Busy, Alone, At
  <1>2. QED
    BY <1>1, EnqueueTyped, EnqueueBeginsTyped, WorkTyped, ControlTyped DEF Next

(* enqueue, worker_loop, start, stop and update_runtime_config keep every  *)
(* variable in its type; in particular a push never overfills the queue.   *)
THEOREM PipelineTyped == SafeSpec => []TypeOK
  <1>1. SafeSpec => []Typed
    BY InitTyped, NextTyped, PTL DEF SafeSpec
  <1>2. Typed => TypeOK
    BY DEF Typed
  <1>3. QED
    BY <1>1, <1>2, PTL

-----------------------------------------------------------------------------
(* The phases of the pipeline and of its workers.                          *)

Publishing == {"publish", "publish_drained", "publish_last"}
AfterLoop == {"drain", "publish_drained", "publish_last", "done"}
Stopping == {"stopping", "joining", "stopping_sinks", "stopped"}

\* Who is where together with whom...
Phases ==
    /\ running <=> control = "started"
    /\ control = "created" => \A w \in Workers : worker[w] = "unborn"
    /\ \A w \in Workers : worker[w] \in AfterLoop => control \in Stopping
    /\ control \in {"stopping_sinks", "stopped"} => \A w \in Workers : worker[w] = "done"

\* ... and with what.
Hands ==
    \A w \in Workers :
        /\ worker[w] \notin Publishing => sent[w] = 0
        /\ worker[w] \in {"unborn", "loop", "pop", "done"} => batch[w] = <<>>
        /\ worker[w] \in {"fill", "publish"} =>
               Len(batch[w]) \in 1 .. (IF limit[w] = 0 THEN 1 ELSE limit[w])

PhaseInv == Typed /\ Phases /\ Hands

LEMMA InitPhases == Init => PhaseInv
  BY InitTyped DEF Init, PhaseInv, Phases, Hands, AfterLoop

\* enqueue has no part in it.
LEMMA EnqueueKeepsPhases ==
    ASSUME Phases, Hands, UNCHANGED <<running, control, workerVars>>
    PROVE  Phases' /\ Hands'
  BY DEF Phases, Hands, workerVars, controlVars

LEMMA EnqueueFrame ==
    ASSUME \/ \E p \in Producers, e \in Events : EnqueueRefused(p, e) \/ EnqueueBegins(p, e)
           \/ \E p \in Producers : Enqueue(p)
    PROVE  UNCHANGED <<running, closed, batch_size, controlVars, workerVars>>
  BY DEF EnqueueRefused, EnqueueBegins, Enqueue, SampledOut, RateLimited, TryPush, CountAccepted,
         CountDropped, queueVars

LEMMA WorkFrame ==
    ASSUME TypeOK, NEW w \in Workers, Work(w)
    PROVE  /\ UNCHANGED <<running, closed, batch_size, producer, counters, controlVars, fate, evicted>>
           /\ worker[w] \notin {"unborn", "done"}
           /\ \A v \in Workers : v # w =>
                  worker'[v] = worker[v] /\ sent'[v] = sent[v] /\ batch'[v] = batch[v] /\ limit'[v] = limit[v]
  <1>1. UNCHANGED <<running, closed, batch_size, producer, counters, controlVars, fate, evicted>>
    BY DEF Work, Loop, LeaveLoop, PopFirst, PopNothing, Fill, Filled, Drain, Drained, HandOver,
           WorkerUnchanged
  <1>2. /\ worker \in [Workers -> WorkerSteps] /\ limit \in [Workers -> Nat]
        /\ sent \in [Workers -> Outputs] /\ batch \in [Workers -> Seq(Events)]
    BY DEF TypeOK
  <1>3. worker[w] \notin {"unborn", "done"}
    BY DEF Work, Loop, LeaveLoop, PopFirst, PopNothing, Fill, Filled, Drain, Drained, HandOver,
           WorkerGoto
  <1>4. ASSUME NEW v \in Workers, v # w
        PROVE  worker'[v] = worker[v] /\ sent'[v] = sent[v] /\ batch'[v] = batch[v] /\ limit'[v] = limit[v]
    <2>1. CASE Loop(w) \/ LeaveLoop(w) \/ PopNothing(w) \/ Filled(w) \/ Drained(w)
      BY <1>2, <1>4, <2>1 DEF Loop, LeaveLoop, PopNothing, Filled, Drained, WorkerGoto
    <2>2. CASE PopFirst(w) \/ Fill(w) \/ Drain(w)
      BY <1>2, <1>4, <2>2 DEF PopFirst, Fill, Drain, WorkerGoto, TakeFront
    <2>3. CASE HandOver(w)
      BY <1>2, <1>4, <2>3 DEF HandOver, ClearBatch
    <2>4. QED
      BY <2>1, <2>2, <2>3 DEF Work
  <1>5. QED
    BY <1>1, <1>3, <1>4

LEMMA WorkKeepsPhases ==
    ASSUME PhaseInv, NEW w \in Workers, Work(w)
    PROVE  Phases'
  <1>1. /\ worker \in [Workers -> WorkerSteps] /\ control \in ControlSteps
        /\ running \in BOOLEAN
    BY DEF PhaseInv, Typed, TypeOK
  <1>2. /\ UNCHANGED <<running, control>>
        /\ worker[w] \notin {"unborn", "done"}
        /\ \A v \in Workers : v # w => worker'[v] = worker[v]
    BY WorkFrame DEF PhaseInv, Typed, controlVars
  <1>3. control # "created" /\ control \notin {"stopping_sinks", "stopped"}
    BY <1>2 DEF PhaseInv, Phases
  <1>4. worker'[w] \in AfterLoop => ~running \/ worker[w] \in AfterLoop
    BY <1>1 DEF Work, Loop, LeaveLoop, PopFirst, PopNothing, Fill, Filled, Drain, Drained, HandOver,
           WorkerGoto, AfterLoop
  <1>5. worker'[w] \in AfterLoop => control \in Stopping
    BY <1>1, <1>3, <1>4 DEF PhaseInv, Phases, Stopping, ControlSteps
  <1>6. QED
    BY <1>2, <1>3, <1>5 DEF PhaseInv, Phases

LEMMA WorkKeepsHands ==
    ASSUME PhaseInv, NEW w \in Workers, Work(w)
    PROVE  Hands'
  <1>1. /\ worker \in [Workers -> WorkerSteps] /\ limit \in [Workers -> Nat]
        /\ sent \in [Workers -> Outputs] /\ batch \in [Workers -> Seq(Events)]
    BY DEF PhaseInv, Typed, TypeOK
  <1>2. SUFFICES
            /\ worker'[w] \notin Publishing => sent'[w] = 0
            /\ worker'[w] \in {"unborn", "loop", "pop", "done"} => batch'[w] = <<>>
            /\ worker'[w] \in {"fill", "publish"} =>
                   Len(batch'[w]) \in 1 .. (IF limit'[w] = 0 THEN 1 ELSE limit'[w])
    BY WorkFrame DEF Hands, PhaseInv, Typed
  <1>3. CASE Loop(w) \/ LeaveLoop(w) \/ PopNothing(w)
    BY <1>1, <1>3 DEF Loop, LeaveLoop, PopNothing, WorkerGoto, PhaseInv, Hands, Publishing
  <1>4. CASE PopFirst(w)
    <2>1. Len(batch'[w]) = 1
      <3>1. batch[w] = <<>> /\ TakeFront(w) /\ TypeOK
        BY <1>4 DEF PopFirst, WorkerGoto, PhaseInv, Hands, Typed
      <3>2. Len(batch'[w]) = Len(batch[w]) + 1
        BY <3>1, TakeFrontTyped
      <3>3. Len(batch[w]) = 0
        BY <3>1
      <3>4. QED
        BY <3>2, <3>3
    <2>2. worker'[w] = "fill" /\ sent'[w] = 0 /\ limit'[w] \in Nat
      BY <1>1, <1>4 DEF PopFirst, WorkerGoto, PhaseInv, Hands, Publishing
    <2>3. QED
      BY <2>1, <2>2
  <1>5. CASE Fill(w)
    <2>1. Len(batch'[w]) = Len(batch[w]) + 1 /\ Len(batch[w]) < limit[w] /\ Len(batch[w]) \in Nat
      BY <1>1, <1>5, TakeFrontTyped DEF Fill, PhaseInv, Typed
    <2>2. worker'[w] = "fill" /\ sent'[w] = 0 /\ limit'[w] = limit[w] /\ limit[w] \in Nat
      BY <1>1, <1>5 DEF Fill, WorkerGoto, PhaseInv, Hands, Publishing
    <2>3. QED
      BY <2>1, <2>2
  <1>6. CASE Filled(w)
    BY <1>1, <1>6 DEF Filled, WorkerGoto, PhaseInv, Hands, Publishing
  <1>7. CASE Drain(w)
    BY <1>1, <1>7 DEF Drain, WorkerGoto, PhaseInv, Hands, Publishing
  <1>8. CASE Drained(w)
    BY <1>1, <1>8 DEF Drained, WorkerGoto, PhaseInv, Hands, Publishing
  <1>9. CASE HandOver(w)
    BY <1>1, <1>9 DEF HandOver, ClearBatch, PhaseInv, Hands, Publishing
  <1>10. QED
    BY <1>3, <1>4, <1>5, <1>6, <1>7, <1>8, <1>9 DEF Work

LEMMA ControlKeepsPhases ==
    ASSUME PhaseInv, Start \/ Stop \/ \E b \in RuntimeBatchSizes : UpdateRuntimeConfig(b)
    PROVE  Phases' /\ Hands'
  <1>1. worker \in [Workers -> WorkerSteps]
    BY DEF PhaseInv, Typed, TypeOK
  <1>2. CASE Start
    <2>1. \A w \in Workers : worker[w] \in {"unborn", "done"} /\ worker'[w] = "loop"
      BY <1>2 DEF Start, Control, PhaseInv, Phases
    <2>2. QED
      BY <1>2, <2>1 DEF Start, Control, ControlUnchanged, PhaseInv, Phases, Hands, AfterLoop, Publishing
  <1>3. CASE Stop
    BY <1>3 DEF Stop, StopBegins, CloseQueue, JoinWorkers, StopSinks, Control, ControlUnchanged,
           PhaseInv, Phases, Hands, Stopping, AfterLoop
  <1>4. CASE \E b \in RuntimeBatchSizes : UpdateRuntimeConfig(b)
    BY <1>4, EnqueueKeepsPhases DEF UpdateRuntimeConfig, PhaseInv, controlVars
  <1>5. QED
    BY <1>2, <1>3, <1>4

LEMMA NextPhases == PhaseInv /\ [Next]_vars => PhaseInv'
  <1> SUFFICES ASSUME PhaseInv, [Next]_vars PROVE PhaseInv'
    OBVIOUS
  <1>1. Typed'
    BY NextTyped DEF PhaseInv
  <1>2. CASE UNCHANGED vars
    BY <1>1, <1>2, EnqueueKeepsPhases DEF vars, PhaseInv, controlVars
  <1>3. CASE Next
    BY <1>1, <1>3, EnqueueFrame, EnqueueKeepsPhases, WorkKeepsPhases, WorkKeepsHands, ControlKeepsPhases
       DEF Next, PhaseInv, controlVars
  <1>4. QED
    BY <1>2, <1>3

LEMMA PhasesHold == SafeSpec => []PhaseInv
  BY InitPhases, NextPhases, PTL DEF SafeSpec

(* worker_loop never has more in a batch than the size it read when it     *)
(* began it, and publishes no empty one.                                   *)
THEOREM BatchesBounded == SafeSpec => []BatchBounded
  <1>1. PhaseInv => BatchBounded
    BY DEF PhaseInv, Hands, BatchBounded
  <1>2. QED
    BY <1>1, PhasesHold, PTL

-----------------------------------------------------------------------------
(* What stop leaves in the queue.                                          *)

\* Some worker has found the queue empty for the last time.
SomeDrained == \E w \in Workers : worker[w] \in {"publish_last", "done"}

\* While the pipeline stops, whoever has still to push was there when the stop
\* began, and what is in the queue once a worker has drained it is theirs.
RacersKnown ==
    control \in Stopping =>
        /\ \A p \in Producers : At(p, "push") => producer[p].event \in racing
        /\ SomeDrained => EventsIn(queue) \subseteq racing

StopInv == PhaseInv /\ RacersKnown

\* A worker past its loop has seen a stop.
LEMMA DrainedIsStopping ==
    ASSUME Phases, SomeDrained
    PROVE  control \in Stopping /\ ~running
  BY DEF Phases, SomeDrained, AfterLoop, Stopping

LEMMA InitStop == Init => StopInv
  BY InitPhases DEF Init, StopInv, RacersKnown, Stopping

LEMMA EnqueueBeginsKeepsStop ==
    ASSUME StopInv, NEW p \in Producers, NEW e \in Events,
           EnqueueRefused(p, e) \/ EnqueueBegins(p, e)
    PROVE  RacersKnown'
  <1>1. UNCHANGED <<queue, worker, control, racing>> /\ (SomeDrained' <=> SomeDrained)
    BY DEF EnqueueRefused, EnqueueBegins, queueVars, workerVars, controlVars, SomeDrained
  <1>2. producer \in [Producers -> ProducerType]
    BY DEF StopInv, PhaseInv, Typed, TypeOK, ProducerType
  <1>3. CASE EnqueueRefused(p, e)
    <2>1. \A q \in Producers : At(q, "push")' => At(q, "push") /\ producer'[q] = producer[q]
      BY <1>2, <1>3 DEF EnqueueRefused, Return, Idle, Calling, At
    <2>2. QED
      BY <1>1, <2>1 DEF StopInv, RacersKnown
  <1>4. CASE EnqueueBegins(p, e)
    BY <1>1, <1>4 DEF EnqueueBegins, StopInv, PhaseInv, Phases, RacersKnown, Stopping
  <1>5. QED
    BY <1>3, <1>4

LEMMA EnqueueKeepsStop ==
    ASSUME StopInv, NEW p \in Producers, Enqueue(p)
    PROVE  RacersKnown'
  <1>1. UNCHANGED <<worker, controlVars>> /\ (SomeDrained' <=> SomeDrained)
    BY EnqueueFrame DEF workerVars, controlVars, SomeDrained
  <1>2. producer \in [Producers -> ProducerType] /\ queue \in Seq(Events) /\ Typed
    BY DEF StopInv, PhaseInv, Typed, TypeOK, ProducerType
  <1>3. \A q \in Producers : At(q, "push")' => At(q, "push") /\ producer'[q] = producer[q]
    BY <1>2 DEF Enqueue, SampledOut, RateLimited, TryPush, CountAccepted, CountDropped, Return, Goto,
            Idle, Calling, At
  <1>4. ASSUME control \in Stopping, SomeDrained
        PROVE  EventsIn(queue') \subseteq racing
    <2>1. EventsIn(queue) \subseteq racing
      BY <1>4 DEF StopInv, RacersKnown
    <2>2. CASE TryPush(p)
      <3>1. /\ producer[p].event \in Events /\ TypeOK
            /\ producer[p].event \in racing
        BY <1>2, <1>4, <2>2 DEF TryPush, Typed, Busy, StopInv, RacersKnown, At
      <3>2. \/ queue' = queue
            \/ queue' = Append(queue, producer[p].event)
            \/ queue # <<>> /\ queue' = Append(Tail(queue), producer[p].event)
        BY <2>2, <3>1, PushCases DEF TryPush
      <3>3. ASSUME NEW s \in Seq(Events), EventsIn(s) \subseteq racing
            PROVE  EventsIn(Append(s, producer[p].event)) \subseteq racing
        BY <3>1, <3>3, EventsInAppend
      <3>4. queue # <<>> => Tail(queue) \in Seq(Events) /\ EventsIn(Tail(queue)) \subseteq racing
        BY <1>2, <2>1, EventsInTail
      <3>5. QED
        BY <1>2, <2>1, <3>2, <3>3, <3>4
    <2>3. CASE ~TryPush(p)
      BY <2>1, <2>3 DEF Enqueue, SampledOut, RateLimited, CountAccepted, CountDropped, queueVars
    <2>4. QED
      BY <2>2, <2>3
  <1>5. EventsIn(queue') = EventsIn(queue)'
    BY DEF EventsIn
  <1>6. QED
    BY <1>1, <1>3, <1>4, <1>5 DEF StopInv, RacersKnown, controlVars

LEMMA WorkKeepsStop ==
    ASSUME StopInv, NEW w \in Workers, Work(w)
    PROVE  RacersKnown'
  <1>1. UNCHANGED <<producer, controlVars>>
    BY WorkFrame DEF StopInv, PhaseInv, Typed
  <1>2. /\ TypeOK /\ queue \in Seq(Events)
        /\ worker \in [Workers -> WorkerSteps]
    BY DEF StopInv, PhaseInv, Typed, TypeOK
  <1>3. \/ queue' = queue
        \/ queue # <<>> /\ queue' = Tail(queue)
    BY DEF Work, Loop, LeaveLoop, PopFirst, PopNothing, Fill, Filled, Drain, Drained, HandOver, TakeFront
  <1>4. EventsIn(queue') \subseteq EventsIn(queue) /\ EventsIn(queue') = EventsIn(queue)'
    BY <1>2, <1>3, EventsInTail DEF EventsIn
  <1>5. worker'[w] \in {"publish_last", "done"} =>
            worker[w] \in {"publish_last", "done"} \/ queue = <<>>
    BY <1>2 DEF Work, Loop, LeaveLoop, PopFirst, PopNothing, Fill, Filled, Drain, Drained, HandOver,
           WorkerGoto
  <1>6. SomeDrained' => SomeDrained \/ queue = <<>>
    BY <1>5, WorkFrame, <1>2 DEF SomeDrained
  <1>7. queue = <<>> => EventsIn(queue) = {}
    BY EventsInEmpty
  <1>8. QED
    BY <1>1, <1>4, <1>6, <1>7 DEF StopInv, RacersKnown, At, controlVars

LEMMA ControlKeepsStop ==
    ASSUME StopInv, Start \/ Stop \/ \E b \in RuntimeBatchSizes : UpdateRuntimeConfig(b)
    PROVE  RacersKnown'
  <1>1. UNCHANGED <<producer, queue>>
    BY DEF Start, Stop, StopBegins, CloseQueue, JoinWorkers, StopSinks, ControlUnchanged,
           UpdateRuntimeConfig, queueVars
  <1>2. CASE Start
    BY <1>2 DEF Start, Control, RacersKnown, Stopping
  <1>3. CASE StopBegins
    <2>1. ~SomeDrained' /\ \A p \in Producers : At(p, "push") => producer[p].event \in racing'
      BY <1>3, DrainedIsStopping
         DEF StopBegins, Control, StopInv, PhaseInv, SomeDrained, RacingNow, Pushing, Stopping
    <2>2. QED
      BY <1>1, <2>1 DEF RacersKnown, At
  <1>4. CASE ~Start /\ ~StopBegins
    <2>1. UNCHANGED <<worker, racing>> /\ (control' \in Stopping => control \in Stopping)
      BY <1>4 DEF Stop, CloseQueue, JoinWorkers, StopSinks, Control, UpdateRuntimeConfig, workerVars, controlVars,
             controlVars, Stopping
    <2>2. QED
      BY <1>1, <2>1 DEF StopInv, RacersKnown, SomeDrained, At, Stopping, EventsIn
  <1>5. QED
    BY <1>2, <1>3, <1>4

LEMMA NextStop == StopInv /\ [Next]_vars => StopInv'
  <1> SUFFICES ASSUME StopInv, [Next]_vars PROVE StopInv'
    OBVIOUS
  <1>1. PhaseInv'
    BY NextPhases DEF StopInv
  <1>2. CASE UNCHANGED vars
    BY <1>1, <1>2
       DEF vars, queueVars, workerVars, controlVars, StopInv, RacersKnown, SomeDrained, At, Stopping, EventsIn
  <1>3. CASE Next
    BY <1>1, <1>3, EnqueueBeginsKeepsStop, EnqueueKeepsStop, WorkKeepsStop, ControlKeepsStop
       DEF Next, StopInv
  <1>4. QED
    BY <1>2, <1>3

LEMMA StopHolds == SafeSpec => []StopInv
  BY InitStop, NextStop, PTL DEF SafeSpec

\* When the sinks are stopped all workers are done, and there are some.
LEMMA AllDone ==
    ASSUME StopInv, control \in {"stopping_sinks", "stopped"}
    PROVE  SomeDrained /\ \A w \in Workers : worker[w] = "done" /\ batch[w] = <<>>
  BY PipelineAssumption DEF StopInv, PhaseInv, Phases, Hands, SomeDrained

-----------------------------------------------------------------------------
(* Conservation of events.                                                 *)

\* No event is twice in the queue and the batches.
Distinct ==
    /\ IsInjective(queue)
    /\ \A w \in Workers :
           IsInjective(batch[w]) /\ EventsIn(queue) \cap EventsIn(batch[w]) = {}
    /\ \A v, w \in Workers : v # w => EventsIn(batch[v]) \cap EventsIn(batch[w]) = {}

Conserved == NothingLost /\ NoDuplicates /\ Distinct

KeepInv == PhaseInv /\ Conserved

\* The push of p has succeeded and p has not returned.
Holds(p) == At(p, "count_accepted") \/ (At(p, "count_dropped") /\ producer[p].evicting)

LEMMA AdmittedIs ==
    \A e : e \in Admitted <=>
        \/ e \in Events /\ fate[e] = "accepted"
        \/ \E p \in Producers : Holds(p) /\ producer[p].event = e
  BY DEF Admitted, Holds

LEMMA AdmittedIsNext ==
    \A e : e \in Admitted' <=>
        \/ e \in Events /\ fate'[e] = "accepted"
        \/ \E p \in Producers : Holds(p)' /\ producer'[p].event = e
  BY DEF Admitted, Holds, At

LEMMA InFlightIs ==
    \A o \in Outputs : \A e : e \in InFlight(o) <=>
        \/ e \in EventsIn(queue)
        \/ \E w \in Workers : sent[w] <= o /\ e \in EventsIn(batch[w])
  BY DEF InFlight

LEMMA InFlightIsNext ==
    \A o \in Outputs : \A e : e \in InFlight(o)' <=>
        \/ e \in EventsIn(queue')
        \/ \E w \in Workers : sent'[w] <= o /\ e \in EventsIn(batch'[w])
  BY DEF InFlight, EventsIn

\* A step that moves no event.
LEMMA SameConserved ==
    ASSUME Conserved, Admitted' = Admitted, UNCHANGED <<evicted, queue, batch, sent, out>>
    PROVE  Conserved'
  <1>1. \A o \in Outputs : InFlight(o)' = InFlight(o)
    BY DEF InFlight, EventsIn
  <1>2. NothingLost'
    BY <1>1 DEF Conserved, NothingLost, EventsIn
  <1>3. NoDuplicates'
    BY <1>1 DEF Conserved, NoDuplicates, EventsIn
  <1>4. Distinct'
    BY DEF Conserved, Distinct, EventsIn
  <1>5. QED
    BY <1>2, <1>3, <1>4 DEF Conserved

\* A call that returns tells its caller whether its event was admitted.
LEMMA ReturnAdmits ==
    ASSUME Typed, NEW p \in Producers, ~At(p, "idle"), NEW f \in Fates,
           Return(p, producer[p].event, f), f = "accepted" <=> Holds(p)
    PROVE  Admitted' = Admitted
  <1> DEFINE e == producer[p].event
  <1>1. e \in Events /\ fate[e] = "pending"
    BY DEF Typed, Busy
  <1>2. /\ producer'[p] = Idle /\ \A q \in Producers : q # p => producer'[q] = producer[q]
        /\ fate'[e] = f /\ \A x \in Events : x # e => fate'[x] = fate[x]
    BY <1>1 DEF Return, Typed, TypeOK
  <1>3. ~Holds(p)' /\ \A q \in Producers : q # p => (Holds(q)' <=> Holds(q))
    BY <1>2 DEF Holds, At, Idle, Calling
  <1>4. \A q \in Producers : Holds(q) => ~At(q, "idle")
    BY DEF Holds, At
  <1>5. \A q \in Producers : q # p /\ Holds(q) => producer[q].event # e
    BY <1>4 DEF Typed, Alone
  <1>6. \A x : x \in Admitted' <=> x \in Admitted
    <2>1. CASE Holds(p)
      BY <1>1, <1>2, <1>3, <1>5, <2>1, AdmittedIs, AdmittedIsNext
    <2>2. CASE ~Holds(p)
      BY <1>1, <1>2, <1>3, <1>5, <2>2, AdmittedIs, AdmittedIsNext
    <2>3. QED
      BY <2>1, <2>2
  <1>7. QED
    BY <1>6

\* No step of enqueue but a push admits anything, or takes anything back.
LEMMA EnqueueBeginsAdmits ==
    ASSUME Typed, NEW p \in Producers, NEW e \in Events,
           EnqueueRefused(p, e) \/ EnqueueBegins(p, e)
    PROVE  Admitted' = Admitted /\ UNCHANGED <<evicted, queue, batch, sent, out>>
  <1>1. UNCHANGED <<evicted, queue, batch, sent, out>>
    BY DEF EnqueueRefused, EnqueueBegins, queueVars, workerVars, controlVars
  <1>2. /\ producer \in [Producers -> ProducerType] /\ fate \in [Events -> Fates]
        /\ fate[e] = "new" /\ At(p, "idle")
    BY DEF Typed, TypeOK, ProducerType, EnqueueRefused, EnqueueBegins
  <1>3. /\ \A q \in Producers : q # p => producer'[q] = producer[q]
        /\ producer'[p].step \notin {"count_accepted", "count_dropped"}
        /\ fate'[e] \in {"refused", "pending"} /\ \A x \in Events : x # e => fate'[x] = fate[x]
    BY <1>2 DEF EnqueueRefused, EnqueueBegins, Return, Goto, Idle, Calling
  <1>4. ~Holds(p) /\ ~Holds(p)' /\ \A q \in Producers : q # p => (Holds(q)' <=> Holds(q))
    BY <1>2, <1>3 DEF Holds, At
  <1>5. \A x : x \in Admitted' <=> x \in Admitted
    BY <1>2, <1>3, <1>4, AdmittedIs, AdmittedIsNext
  <1>6. QED
    BY <1>1, <1>5

LEMMA EnqueueAdmits ==
    ASSUME Typed, NEW p \in Producers, Enqueue(p), ~TryPush(p)
    PROVE  Admitted' = Admitted /\ UNCHANGED <<evicted, queue, batch, sent, out>>
  <1>0. producer \in [Producers -> ProducerType]
    BY DEF Typed, TypeOK, ProducerType
  <1>1. UNCHANGED <<evicted, queue, batch, sent, out>>
    BY DEF Enqueue, SampledOut, RateLimited, CountAccepted, CountDropped, queueVars, workerVars, controlVars
  <1>2. CASE SampledOut(p)
    <2>1. ~At(p, "idle") /\ ~Holds(p) /\ Return(p, producer[p].event, "sampled") /\ "sampled" \in Fates
      BY <1>2 DEF SampledOut, At, Holds, Fates
    <2>2. QED
      BY <1>1, <2>1, ReturnAdmits
  <1>3. CASE RateLimited(p)
    <2>1. ~At(p, "idle") /\ ~Holds(p) /\ Return(p, producer[p].event, "limited") /\ "limited" \in Fates
      BY <1>3 DEF RateLimited, At, Holds, Fates
    <2>2. QED
      BY <1>1, <2>1, ReturnAdmits
  <1>4. CASE CountAccepted(p) /\ Return(p, producer[p].event, "accepted")
    <2>1. ~At(p, "idle") /\ Holds(p) /\ "accepted" \in Fates
      BY <1>4 DEF CountAccepted, At, Holds, Fates
    <2>2. QED
      BY <1>1, <1>4, <2>1, ReturnAdmits
  <1>5. CASE CountAccepted(p) /\ Goto(p, "count_dropped", producer[p].event, TRUE) /\ UNCHANGED fate
    <2>1. /\ producer'[p] = Calling("count_dropped", producer[p].event, TRUE)
          /\ \A q \in Producers : q # p => producer'[q] = producer[q]
      BY <1>0, <1>5 DEF Goto
    <2>2. Holds(p) /\ Holds(p)' /\ producer'[p].event = producer[p].event
      BY <1>5, <2>1 DEF CountAccepted, Holds, At, Calling
    <2>3. \A q \in Producers : q # p => (Holds(q)' <=> Holds(q))
      BY <2>1 DEF Holds, At
    <2>4. \A x : x \in Admitted' <=> x \in Admitted
      BY <1>5, <2>1, <2>2, <2>3, AdmittedIs, AdmittedIsNext
    <2>5. QED
      BY <1>1, <2>4
  <1>6. CASE CountDropped(p)
    <2> DEFINE f == IF producer[p].evicting THEN "accepted" ELSE "dropped"
    <2>1. /\ ~At(p, "idle") /\ Return(p, producer[p].event, f) /\ f \in Fates
          /\ f = "accepted" <=> Holds(p)
      BY <1>6 DEF CountDropped, At, Holds, Fates
    <2>2. QED
      BY <1>1, <2>1, ReturnAdmits
  <1>7. QED
    BY <1>2, <1>3, <1>4, <1>5, <1>6 DEF Enqueue, CountAccepted

\* A push that succeeds makes its event an admitted one; it was none before.
LEMMA PushAdmits ==
    ASSUME Typed, NEW p \in Producers, TryPush(p)
    PROVE  LET e == producer[p].event
               r == PushResult(queue, closed, Policy, MaxSize, e)
           IN  /\ e \in Events /\ e \notin Admitted
               /\ Admitted' = IF r.ok THEN Admitted \cup {e} ELSE Admitted
  <1> DEFINE e == producer[p].event
             r == PushResult(queue, closed, Policy, MaxSize, e)
             evicts == r.ok /\ r.dropped = 1
  <1>1. /\ producer \in [Producers -> ProducerType] /\ ~At(p, "idle") /\ ~Holds(p)
        /\ e \in Events /\ fate[e] = "pending" /\ UNCHANGED fate
    BY DEF TryPush, Holds, At, Typed, TypeOK, Busy, ProducerType
  <1>2. /\ producer'[p] = Calling(IF r.ok THEN "count_accepted" ELSE "count_dropped", e, evicts)
        /\ \A q \in Producers : q # p => producer'[q] = producer[q]
    BY <1>1 DEF TryPush, Goto
  <1>3. Holds(p)' <=> r.ok
    <2>1. r.ok \in BOOLEAN
      BY <1>1, PushCases DEF Typed
    <2>2. CASE r.ok
      <3>1. producer'[p].step = "count_accepted"
        BY <1>2, <2>2 DEF Calling
      <3>2. QED
        BY <2>2, <3>1 DEF Holds, At
    <2>3. CASE ~r.ok
      <3>1. evicts = FALSE
        BY <2>3
      <3>2. producer'[p] = Calling("count_dropped", e, FALSE)
        BY <1>2, <2>3, <3>1
      <3>3. producer'[p].step = "count_dropped" /\ producer'[p].evicting = FALSE
        BY <3>2 DEF Calling
      <3>4. QED
        BY <2>3, <3>3 DEF Holds, At
    <2>4. QED
      BY <2>1, <2>2, <2>3
  <1>4. producer'[p].event = e
    BY <1>2 DEF Calling
  <1>5. \A q \in Producers : q # p => (Holds(q)' <=> Holds(q))
    BY <1>2 DEF Holds, At
  <1>6. \A q \in Producers : Holds(q) => producer[q].event # e
    BY <1>1 DEF Holds, At, Typed, Alone
  <1>7. e \notin Admitted
    BY <1>1, <1>6, AdmittedIs
  <1>8. \A x : x \in Admitted' <=> x \in Admitted \/ (r.ok /\ x = e)
    BY <1>1, <1>2, <1>3, <1>4, <1>5, AdmittedIs, AdmittedIsNext
  <1>9. QED
    BY <1>1, <1>7, <1>8

LEMMA PushConserves ==
    ASSUME KeepInv, NEW p \in Producers, TryPush(p)
    PROVE  Conserved'
  <1> DEFINE e == producer[p].event
             r == PushResult(queue, closed, Policy, MaxSize, e)
  <1>1. /\ e \in Events /\ e \notin Admitted
        /\ Admitted' = IF r.ok THEN Admitted \cup {e} ELSE Admitted
    BY PushAdmits DEF KeepInv, PhaseInv
  <1>2. /\ queue' = r.items
        /\ evicted' = IF r.ok /\ r.dropped = 1 THEN evicted \cup {Head(queue)} ELSE evicted
        /\ UNCHANGED <<batch, sent, out>>
    BY DEF TryPush, workerVars, controlVars
  <1>3. TypeOK /\ queue \in Seq(Events)
    BY DEF KeepInv, PhaseInv, Typed, TypeOK
  <1>4. \A o \in Outputs :
            /\ Admitted = evicted \cup InFlight(o) \cup EventsIn(out[o])
            /\ IsInjective(out[o])
            /\ EventsIn(out[o]) \cap (evicted \cup InFlight(o)) = {}
            /\ evicted \cap InFlight(o) = {}
    BY DEF KeepInv, Conserved, NothingLost, NoDuplicates
  <1>5. e \notin EventsIn(queue) /\ \A w \in Workers : e \notin EventsIn(batch[w])
    <2>1. \A o \in Outputs : InFlight(o) \subseteq Admitted
      BY <1>4
    <2>2. \A w \in Workers : sent[w] \in Outputs /\ sent[w] <= sent[w]
      <3>1. \A w \in Workers : sent[w] \in Outputs
        BY <1>3 DEF TypeOK
      <3>2. \A n \in Outputs : n <= n
        BY ConstantFacts
      <3>3. QED
        BY <3>1, <3>2
    <2>3. QED
      BY <1>1, <2>1, <2>2, InFlightIs, ConstantFacts
  <1>6. CASE ~r.ok
    <2>1. queue' = queue /\ evicted' = evicted
      BY <1>1, <1>2, <1>3, <1>6, PushCases
    <2>2. QED
      BY <1>1, <1>2, <1>6, <2>1, SameConserved DEF KeepInv
  <1>7. CASE r.ok /\ r.dropped = 0
    <2>1. queue' = Append(queue, e) /\ evicted' = evicted
      BY <1>1, <1>2, <1>3, <1>7, PushCases
    <2>2. /\ EventsIn(queue') = EventsIn(queue) \cup {e}
          /\ IsInjective(queue) => IsInjective(queue')
      BY <1>1, <1>3, <1>5, <2>1, EventsInAppend
    <2>3. \A o \in Outputs : InFlight(o)' = InFlight(o) \cup {e}
      BY <1>2, <2>2, InFlightIs, InFlightIsNext
    <2>4. NothingLost'
      BY <1>1, <1>2, <1>4, <1>7, <2>1, <2>3 DEF NothingLost, EventsIn
    <2>5. NoDuplicates'
      BY <1>1, <1>2, <1>4, <2>1, <2>3 DEF NoDuplicates, EventsIn
    <2>6. Distinct'
      BY <1>2, <1>5, <2>2 DEF KeepInv, Conserved, Distinct
    <2>7. QED
      BY <2>4, <2>5, <2>6 DEF Conserved
  <1>8. CASE r.ok /\ r.dropped = 1
    <2> DEFINE h == Head(queue)
    <2>1. queue # <<>> /\ queue' = Append(Tail(queue), e) /\ evicted' = evicted \cup {h}
      BY <1>1, <1>2, <1>3, <1>8, PushCases
    <2>2. /\ Tail(queue) \in Seq(Events)
          /\ EventsIn(queue) = {h} \cup EventsIn(Tail(queue))
          /\ h \notin EventsIn(Tail(queue)) /\ IsInjective(Tail(queue))
      BY <1>3, <2>1, EventsInTail DEF KeepInv, Conserved, Distinct
    <2>3. EventsIn(queue') = EventsIn(Tail(queue)) \cup {e} /\ IsInjective(queue')
      BY <1>1, <1>5, <2>1, <2>2, EventsInAppend
    <2>4. h \in EventsIn(queue) /\ h # e /\ \A w \in Workers : h \notin EventsIn(batch[w])
      BY <1>5, <2>2 DEF KeepInv, Conserved, Distinct
    <2>5. \A o \in Outputs : h \in InFlight(o) /\ InFlight(o)' = (InFlight(o) \ {h}) \cup {e}
      BY <1>2, <2>2, <2>3, <2>4, InFlightIs, InFlightIsNext
    <2>6. NothingLost'
      BY <1>1, <1>2, <1>4, <1>8, <2>1, <2>5 DEF NothingLost, EventsIn
    <2>7. NoDuplicates'
      BY <1>1, <1>2, <1>4, <2>1, <2>4, <2>5 DEF NoDuplicates, EventsIn
    <2>8. Distinct'
      BY <1>2, <1>5, <2>2, <2>3 DEF KeepInv, Conserved, Distinct
    <2>9. QED
      BY <2>6, <2>7, <2>8 DEF Conserved
  <1>9. QED
    BY <1>1, <1>3, <1>6, <1>7, <1>8, PushCases

LEMMA EnqueueConserves ==
    ASSUME KeepInv, NEW p \in Producers, Enqueue(p)
    PROVE  Conserved'
  <1>1. Typed /\ Conserved
    BY DEF KeepInv, PhaseInv
  <1>2. CASE TryPush(p)
    BY <1>2, PushConserves
  <1>3. CASE ~TryPush(p)
    BY <1>1, <1>3, EnqueueAdmits, SameConserved
  <1>4. QED
    BY <1>2, <1>3

\* An event that a worker takes is still in flight to every output.
LEMMA TakeFrontConserves ==
    ASSUME KeepInv, NEW w \in Workers, TakeFront(w), sent[w] = 0,
           UNCHANGED <<producer, fate, evicted, sent, out>>
    PROVE  Conserved'
  <1> DEFINE h == Head(queue)
  <1>1. /\ TypeOK /\ queue \in Seq(Events) /\ queue # <<>> /\ queue' = Tail(queue)
        /\ batch \in [Workers -> Seq(Events)] /\ batch[w] \in Seq(Events)
    BY DEF KeepInv, PhaseInv, Typed, TypeOK, TakeFront
  <1>2. batch'[w] = Append(batch[w], h) /\ \A v \in Workers : v # w => batch'[v] = batch[v]
    BY <1>1, TakeFrontTyped
  <1>3. /\ h \in Events
        /\ EventsIn(queue) = {h} \cup EventsIn(queue')
        /\ h \notin EventsIn(queue') /\ IsInjective(queue')
    BY <1>1, EventsInTail DEF KeepInv, Conserved, Distinct
  <1>4. \A v \in Workers : h \notin EventsIn(batch[v])
    BY <1>3 DEF KeepInv, Conserved, Distinct
  <1>5. EventsIn(batch'[w]) = EventsIn(batch[w]) \cup {h} /\ IsInjective(batch'[w])
    BY <1>1, <1>2, <1>3, <1>4, EventsInAppend DEF KeepInv, Conserved, Distinct
  <1>6. \A o \in Outputs : sent[w] <= o
    BY ConstantFacts DEF Outputs
  <1>7. \A o \in Outputs : InFlight(o)' = InFlight(o)
    <2>1. ASSUME NEW o \in Outputs, NEW e
          PROVE  e \in InFlight(o)' <=> e \in InFlight(o)
      BY <1>2, <1>3, <1>5, <1>6, InFlightIs, InFlightIsNext
    <2>2. QED
      BY <2>1
  <1>8. Admitted' = Admitted
    BY DEF Admitted, At
  <1>9. NothingLost'
    BY <1>7, <1>8 DEF KeepInv, Conserved, NothingLost, EventsIn
  <1>10. NoDuplicates'
    BY <1>7 DEF KeepInv, Conserved, NoDuplicates, EventsIn
  <1>11. Distinct'
    BY <1>2, <1>3, <1>4, <1>5 DEF KeepInv, Conserved, Distinct
  <1>12. QED
    BY <1>9, <1>10, <1>11 DEF Conserved

\* A batch handed over to one output is no longer in flight to it, and still
\* is to the next ones.
LEMMA HandOverConserves ==
    ASSUME KeepInv, NEW w \in Workers, HandOver(w)
    PROVE  Conserved'
  <1>k. PICK k \in Outputs : k = sent[w]
    BY DEF KeepInv, PhaseInv, Typed, TypeOK
  <1>1. /\ batch \in [Workers -> Seq(Events)] /\ out \in [Outputs -> Seq(Events)]
        /\ sent \in [Workers -> Outputs] /\ k \in Outputs /\ batch[w] \in Seq(Events)
    BY DEF KeepInv, PhaseInv, Typed, TypeOK
  <1>2. /\ UNCHANGED <<producer, fate, evicted, queue>>
        /\ out'[k] = out[k] \o batch[w]
        /\ \A o \in Outputs : o # k => out'[o] = out[o]
    BY <1>k, <1>1 DEF HandOver, WorkerUnchanged
  <1>3. \/ /\ k < NumSinks /\ sent'[w] = k + 1
           /\ \A v \in Workers : v # w => sent'[v] = sent[v]
           /\ batch' = batch
        \/ /\ k = NumSinks /\ sent'[w] = 0 /\ batch'[w] = <<>>
           /\ \A v \in Workers : v # w => sent'[v] = sent[v] /\ batch'[v] = batch[v]
    BY <1>k, <1>1 DEF HandOver, ClearBatch
  <1>4. EventsIn(batch[w]) \subseteq InFlight(k)
    <2>1. k \in Nat
      BY <1>1, ConstantFacts
    <2>2. k <= k
      BY <2>1
    <2>3. QED
      BY <1>k, <1>1, <2>2, InFlightIs
  <1>5. \A v \in Workers : v # w => EventsIn(batch[w]) \cap EventsIn(batch[v]) = {}
    BY DEF KeepInv, Conserved, Distinct
  <1>6. EventsIn(batch[w]) \cap EventsIn(queue) = {}
    BY DEF KeepInv, Conserved, Distinct
  <1>7. \A o \in Outputs : o # k => InFlight(o)' = InFlight(o)
    <2>1. ASSUME NEW o \in Outputs, o # k, NEW e
          PROVE  e \in InFlight(o)' <=> e \in InFlight(o)
      <3>1. \A v \in Workers :
                (sent'[v] <= o /\ e \in EventsIn(batch'[v])) <=> (sent[v] <= o /\ e \in EventsIn(batch[v]))
        <4>1. o \in Nat /\ k \in Nat /\ o <= NumSinks /\ NumSinks \in Nat
          BY <1>1, ConstantFacts DEF Outputs
        <4>2. k + 1 <= o <=> k <= o
          BY <2>1, <4>1
        <4>3. k = NumSinks => ~(k <= o)
          BY <2>1, <4>1
        <4>4. QED
          BY <1>k, <1>3, <4>2, <4>3, EventsInEmpty
      <3>2. QED
        BY <1>2, <3>1, InFlightIs, InFlightIsNext
    <2>2. QED
      BY <2>1
  <1>8. InFlight(k)' = InFlight(k) \ EventsIn(batch[w])
    <2>1. ASSUME NEW e
          PROVE  e \in InFlight(k)' <=> e \in InFlight(k) /\ e \notin EventsIn(batch[w])
      <3>1. ~(sent'[w] <= k /\ e \in EventsIn(batch'[w]))
        <4>1. k \in Nat
          BY <1>1, ConstantFacts
        <4>2. ~(k + 1 <= k)
          BY <4>1
        <4>3. QED
          BY <1>3, <4>2, EventsInEmpty
      <3>2. \A v \in Workers : v # w => sent'[v] = sent[v] /\ batch'[v] = batch[v]
        BY <1>3
      <3>3. e \in InFlight(k)' <=>
                \/ e \in EventsIn(queue)
                \/ \E v \in Workers : v # w /\ sent[v] <= k /\ e \in EventsIn(batch[v])
        <4>1. e \in InFlight(k)' <=>
                  \/ e \in EventsIn(queue')
                  \/ \E v \in Workers : sent'[v] <= k /\ e \in EventsIn(batch'[v])
          BY <1>1, InFlightIsNext
        <4>2. QED
          BY <1>2, <3>1, <3>2, <4>1
      <3>4. QED
        BY <1>k, <1>1, <1>5, <1>6, <3>3, InFlightIs
    <2>2. QED
      BY <2>1
  <1>9. Admitted' = Admitted
    BY <1>2 DEF Admitted, At
  <1>10. /\ EventsIn(out'[k]) = EventsIn(out[k]) \cup EventsIn(batch[w])
         /\ IsInjective(out'[k])
    <2>1. IsInjective(out[k]) /\ IsInjective(batch[w]) /\ EventsIn(out[k]) \cap EventsIn(batch[w]) = {}
      BY <1>k, <1>1, <1>4 DEF KeepInv, Conserved, NoDuplicates, Distinct
    <2>2. QED
      BY <1>1, <1>2, <2>1, EventsInConcat
  <1>11. \A o \in Outputs :
            /\ Admitted = evicted \cup InFlight(o) \cup EventsIn(out[o])
            /\ IsInjective(out[o])
            /\ EventsIn(out[o]) \cap (evicted \cup InFlight(o)) = {}
            /\ evicted \cap InFlight(o) = {}
    BY DEF KeepInv, Conserved, NothingLost, NoDuplicates
  <1>12. ASSUME NEW o \in Outputs
         PROVE  /\ Admitted' = evicted' \cup InFlight(o)' \cup EventsIn(out'[o])
                /\ IsInjective(out'[o])
                /\ EventsIn(out'[o]) \cap (evicted' \cup InFlight(o)') = {}
                /\ evicted' \cap InFlight(o)' = {}
    <2>1. CASE o = k
      <3>1. InFlight(o)' = InFlight(o) \ EventsIn(batch[w])
        BY <1>8, <2>1
      <3>2. EventsIn(out'[o]) = EventsIn(out[o]) \cup EventsIn(batch[w]) /\ IsInjective(out'[o])
        BY <1>10, <2>1
      <3>3. EventsIn(batch[w]) \subseteq InFlight(o)
        BY <1>4, <2>1
      <3>4. QED
        BY <1>2, <1>9, <1>11, <3>1, <3>2, <3>3
    <2>2. CASE o # k
      BY <1>2, <1>7, <1>9, <1>11, <2>2
    <2>3. QED
      BY <2>1, <2>2
  <1>13. NothingLost' /\ NoDuplicates'
    BY <1>12 DEF NothingLost, NoDuplicates
  <1>14. Distinct'
    BY <1>2, <1>3, EventsInEmpty DEF KeepInv, Conserved, Distinct
  <1>15. QED
    BY <1>13, <1>14 DEF Conserved

LEMMA WorkConserves ==
    ASSUME KeepInv, NEW w \in Workers, Work(w)
    PROVE  Conserved'
  <1>1. UNCHANGED <<producer, fate, evicted>> /\ Admitted' = Admitted
    BY WorkFrame DEF KeepInv, PhaseInv, Typed, Admitted, At
  <1>2. CASE Loop(w) \/ LeaveLoop(w) \/ PopNothing(w) \/ Filled(w) \/ Drained(w)
    <2>1. UNCHANGED <<queue, batch, sent, out>>
      BY <1>2 DEF Loop, LeaveLoop, PopNothing, Filled, Drained
    <2>2. QED
      BY <1>1, <2>1, SameConserved DEF KeepInv
  <1>3. CASE PopFirst(w) \/ Fill(w) \/ Drain(w)
    <2>1. TakeFront(w) /\ UNCHANGED <<sent, out>>
      BY <1>3 DEF PopFirst, Fill, Drain
    <2>2. sent[w] = 0
      BY <1>3 DEF PopFirst, Fill, Drain, WorkerGoto, KeepInv, PhaseInv, Hands, Publishing
    <2>3. QED
      BY <1>1, <2>1, <2>2, TakeFrontConserves
  <1>4. CASE HandOver(w)
    BY <1>4, HandOverConserves
  <1>5. QED
    BY <1>2, <1>3, <1>4 DEF Work

LEMMA NextConserves == KeepInv /\ [Next]_vars => KeepInv'
  <1> SUFFICES ASSUME KeepInv, [Next]_vars PROVE KeepInv'
    OBVIOUS
  <1>1. PhaseInv'
    BY NextPhases DEF KeepInv
  <1>2. CASE UNCHANGED vars
    <2>1. UNCHANGED <<evicted, queue, batch, sent, out>> /\ Admitted' = Admitted
      BY <1>2 DEF vars, queueVars, workerVars, controlVars, Admitted, At
    <2>2. QED
      BY <1>1, <2>1, SameConserved DEF KeepInv
  <1>3. CASE Start \/ Stop \/ \E b \in RuntimeBatchSizes : UpdateRuntimeConfig(b)
    <2>1. UNCHANGED <<evicted, queue, batch, sent, out>> /\ Admitted' = Admitted
      BY <1>3 DEF Start, Stop, StopBegins, CloseQueue, JoinWorkers, StopSinks, ControlUnchanged,
             UpdateRuntimeConfig, queueVars, workerVars, controlVars, Admitted, At
    <2>2. QED
      BY <1>1, <2>1, SameConserved DEF KeepInv
  <1>4. CASE \E p \in Producers, e \in Events : EnqueueRefused(p, e) \/ EnqueueBegins(p, e)
    BY <1>1, <1>4, EnqueueBeginsAdmits, SameConserved DEF KeepInv, PhaseInv
  <1>5. QED
    BY <1>1, <1>2, <1>3, <1>4, EnqueueConserves, WorkConserves DEF Next, KeepInv

LEMMA InitConserved == Init => KeepInv
  <1> SUFFICES ASSUME Init PROVE KeepInv
    OBVIOUS
  <1>1. PhaseInv
    BY InitPhases
  <1>2. /\ queue = <<>> /\ evicted = {}
        /\ \A w \in Workers : batch[w] = <<>>
        /\ \A o \in Outputs : out[o] = <<>>
        /\ \A p \in Producers : ~Holds(p)
        /\ \A e \in Events : fate[e] = "new"
    BY DEF Init, Holds, At, Idle, Calling
  <1>3. Admitted = {}
    BY <1>2, AdmittedIs
  <1>4. \A o \in Outputs : InFlight(o) = {}
    BY <1>2, EventsInEmpty, InFlightIs
  <1>5. NothingLost /\ NoDuplicates
    BY <1>2, <1>3, <1>4, EventsInEmpty DEF NothingLost, NoDuplicates
  <1>6. Distinct
    BY <1>2, EventsInEmpty DEF Distinct
  <1>7. QED
    BY <1>1, <1>5, <1>6 DEF KeepInv, Conserved

LEMMA ConservationHolds == SafeSpec => []KeepInv
  BY InitConserved, NextConserves, PTL DEF SafeSpec

(* Whatever producers, workers, evictions and stop do, every event whose   *)
(* push succeeded is evicted, on its way to each output, or there.         *)
THEOREM NothingIsLost == SafeSpec => []NothingLost
  <1>1. KeepInv => NothingLost
    BY DEF KeepInv, Conserved
  <1>2. QED
    BY <1>1, ConservationHolds, PTL

(* No sink, nor the hub, is given an event twice or an evicted one.        *)
THEOREM NothingIsDuplicated == SafeSpec => []NoDuplicates
  <1>1. KeepInv => NoDuplicates
    BY DEF KeepInv, Conserved
  <1>2. QED
    BY <1>1, ConservationHolds, PTL

(* Before it stops the sinks, stop hands every accepted event that was not *)
(* evicted to the hub and to every sink, but for those that raced it.      *)
THEOREM StopDeliversAll == SafeSpec => []StopDrains
  <1>1. KeepInv /\ StopInv => StopDrains
    <2> SUFFICES ASSUME KeepInv, StopInv,
                        control \in {"stopping_sinks", "stopped"}, NEW o \in Outputs
                 PROVE  Admitted \ evicted \subseteq EventsIn(out[o]) \cup racing
      BY DEF StopDrains
    <2>1. EventsIn(queue) \subseteq racing /\ \A w \in Workers : batch[w] = <<>>
      BY AllDone DEF StopInv, RacersKnown, Stopping
    <2>2. InFlight(o) \subseteq racing
      BY <2>1, EventsInEmpty, InFlightIs
    <2>3. QED
      BY <2>2 DEF KeepInv, Conserved, NothingLost
  <1>2. QED
    BY <1>1, ConservationHolds, StopHolds, PTL

-----------------------------------------------------------------------------
(* The counters.                                                           *)

AcceptsUncounted == {p \in Producers : At(p, "count_accepted")}
EvictionsUncounted == {p \in Producers : producer[p].evicting}
Sampled == {e \in Events : fate[e] = "sampled"}
Rejected == {e \in Events : fate[e] \in {"limited", "dropped"}}

\* A push has evicted only while it is being counted.
Evicting ==
    \A p \in Producers :
        producer[p].evicting => At(p, "count_accepted") \/ At(p, "count_dropped")

Counted ==
    /\ sampled = Cardinality(Sampled)
    /\ accepted + Cardinality(AcceptsUncounted) = Cardinality(Admitted)
    /\ dropped + Cardinality(EvictionsUncounted) = Cardinality(Rejected) + Cardinality(evicted)

CountInv == KeepInv /\ Evicting /\ Counted

LEMMA CountersAre == Counted => CountersAgree
  BY DEF Counted, CountersAgree, AcceptsUncounted, EvictionsUncounted, Sampled, Rejected

\* One more element, or one less.
LEMMA OneMore ==
    ASSUME NEW S, IsFiniteSet(S), NEW x, x \notin S
    PROVE  Cardinality(S) \in Nat /\ Cardinality(S \cup {x}) = Cardinality(S) + 1
  BY FS_CardinalityType, FS_AddElement

LEMMA OneLess ==
    ASSUME NEW S, IsFiniteSet(S), NEW x \in S
    PROVE  Cardinality(S) = Cardinality(S \ {x}) + 1 /\ Cardinality(S \ {x}) \in Nat
  <1>1. IsFiniteSet(S \ {x}) /\ x \notin S \ {x} /\ (S \ {x}) \cup {x} = S
    BY FS_Subset
  <1>2. QED
    BY <1>1, OneMore, FS_CardinalityType

LEMMA CountedSets ==
    ASSUME Typed
    PROVE  /\ IsFiniteSet(AcceptsUncounted) /\ Cardinality(AcceptsUncounted) \in Nat
           /\ IsFiniteSet(EvictionsUncounted) /\ Cardinality(EvictionsUncounted) \in Nat
           /\ IsFiniteSet(Sampled) /\ Cardinality(Sampled) \in Nat
           /\ IsFiniteSet(Rejected) /\ Cardinality(Rejected) \in Nat
           /\ IsFiniteSet(Admitted) /\ Cardinality(Admitted) \in Nat
           /\ IsFiniteSet(evicted) /\ Cardinality(evicted) \in Nat
           /\ accepted \in Nat /\ dropped \in Nat /\ sampled \in Nat
  <1>1. AcceptsUncounted \subseteq Producers /\ EvictionsUncounted \subseteq Producers
    BY DEF AcceptsUncounted, EvictionsUncounted
  <1>2. Sampled \subseteq Events /\ Rejected \subseteq Events
    BY DEF Sampled, Rejected
  <1>3. \A p \in Producers : Holds(p) => producer[p].event \in Events
    BY DEF Typed, Busy, Holds, At
  <1>4. Admitted \subseteq Events
    BY <1>3, AdmittedIs
  <1>5. evicted \subseteq Events /\ accepted \in Nat /\ dropped \in Nat /\ sampled \in Nat
    BY DEF Typed, TypeOK
  <1>6. /\ IsFiniteSet(AcceptsUncounted) /\ IsFiniteSet(EvictionsUncounted) /\ IsFiniteSet(Sampled)
        /\ IsFiniteSet(Rejected) /\ IsFiniteSet(Admitted) /\ IsFiniteSet(evicted)
    BY <1>1, <1>2, <1>4, <1>5, PipelineAssumption, FS_Subset
  <1>7. QED
    BY <1>5, <1>6, FS_CardinalityType

\* What a step of one producer, with one event, does to the sets.
LEMMA ProducerCounts ==
    ASSUME NEW p \in Producers, \A q \in Producers : q # p => producer'[q] = producer[q]
    PROVE  /\ AcceptsUncounted' = IF At(p, "count_accepted")' THEN AcceptsUncounted \cup {p}
                                                              ELSE AcceptsUncounted \ {p}
           /\ producer'[p].evicting => EvictionsUncounted' = EvictionsUncounted \cup {p}
           /\ ~producer'[p].evicting => EvictionsUncounted' = EvictionsUncounted \ {p}
           /\ Evicting /\ (producer'[p].evicting =>
                  At(p, "count_accepted")' \/ At(p, "count_dropped")') => Evicting'
  <1>1. p \in AcceptsUncounted' <=> At(p, "count_accepted")'
    BY DEF AcceptsUncounted
  <1>2. \A q : q # p => (q \in AcceptsUncounted' <=> q \in AcceptsUncounted)
    BY DEF AcceptsUncounted, At
  <1>3. p \in EvictionsUncounted' <=> producer'[p].evicting
    BY DEF EvictionsUncounted
  <1>4. \A q : q # p => (q \in EvictionsUncounted' <=> q \in EvictionsUncounted)
    BY DEF EvictionsUncounted
  <1>5. AcceptsUncounted' = IF At(p, "count_accepted")' THEN AcceptsUncounted \cup {p}
                                                        ELSE AcceptsUncounted \ {p}
    BY <1>1, <1>2
  <1>6. /\ producer'[p].evicting => EvictionsUncounted' = EvictionsUncounted \cup {p}
        /\ ~producer'[p].evicting => EvictionsUncounted' = EvictionsUncounted \ {p}
    BY <1>3, <1>4
  <1>7. ASSUME Evicting, producer'[p].evicting =>
                   At(p, "count_accepted")' \/ At(p, "count_dropped")'
        PROVE  Evicting'
    BY <1>7 DEF Evicting, At
  <1>8. QED
    BY <1>5, <1>6, <1>7

LEMMA FateCounts ==
    ASSUME NEW e \in Events, \A x \in Events : x # e => fate'[x] = fate[x],
           fate[e] \in {"new", "pending"}
    PROVE  /\ e \notin Sampled /\ e \notin Rejected
           /\ Sampled' = IF fate'[e] = "sampled" THEN Sampled \cup {e} ELSE Sampled
           /\ Rejected' = IF fate'[e] \in {"limited", "dropped"} THEN Rejected \cup {e} ELSE Rejected
  <1>1. e \notin Sampled /\ e \notin Rejected
    BY DEF Sampled, Rejected
  <1>2. /\ e \in Sampled' <=> fate'[e] = "sampled"
        /\ e \in Rejected' <=> fate'[e] \in {"limited", "dropped"}
    BY DEF Sampled, Rejected
  <1>3. \A x : x # e => (x \in Sampled' <=> x \in Sampled) /\ (x \in Rejected' <=> x \in Rejected)
    BY DEF Sampled, Rejected
  <1>4. QED
    BY <1>1, <1>2, <1>3

\* A step that leaves the producers and what they were told alone.
LEMMA SameCounted ==
    ASSUME Counted, Evicting, Admitted' = Admitted, UNCHANGED <<producer, fate, evicted, counters>>
    PROVE  Counted' /\ Evicting'
  <1>1. /\ AcceptsUncounted' = AcceptsUncounted /\ EvictionsUncounted' = EvictionsUncounted
        /\ Sampled' = Sampled /\ Rejected' = Rejected
    BY DEF AcceptsUncounted, EvictionsUncounted, Sampled, Rejected, At
  <1>2. UNCHANGED <<accepted, dropped, sampled>>
    BY DEF counters
  <1>3. Counted'
    BY <1>1, <1>2 DEF Counted
  <1>4. QED
    BY <1>3 DEF Evicting, At

LEMMA EnqueueBeginsCounts ==
    ASSUME CountInv, NEW p \in Producers, NEW e \in Events,
           EnqueueRefused(p, e) \/ EnqueueBegins(p, e)
    PROVE  Counted' /\ Evicting'
  <1>1. Typed /\ Counted /\ Evicting
    BY DEF CountInv, KeepInv, PhaseInv
  <1>2. Admitted' = Admitted /\ UNCHANGED evicted
    BY <1>1, EnqueueBeginsAdmits
  <1>3. /\ producer \in [Producers -> ProducerType] /\ fate \in [Events -> Fates]
        /\ fate[e] = "new" /\ At(p, "idle") /\ UNCHANGED counters
    BY <1>1 DEF Typed, TypeOK, ProducerType, EnqueueRefused, EnqueueBegins
  <1>4. /\ \A q \in Producers : q # p => producer'[q] = producer[q]
        /\ producer'[p].step \notin {"count_accepted", "count_dropped"} /\ producer'[p].evicting = FALSE
        /\ fate'[e] \in {"refused", "pending"} /\ \A x \in Events : x # e => fate'[x] = fate[x]
    BY <1>3 DEF EnqueueRefused, EnqueueBegins, Return, Goto, Idle, Calling
  <1>5. p \notin AcceptsUncounted /\ p \notin EvictionsUncounted
    <2>1. p \notin AcceptsUncounted
      BY <1>3 DEF AcceptsUncounted, At
    <2>2. p \notin EvictionsUncounted
      BY <1>1, <1>3 DEF EvictionsUncounted, Evicting, At
    <2>3. QED
      BY <2>1, <2>2
  <1>6. AcceptsUncounted' = AcceptsUncounted
    BY <1>4, <1>5, ProducerCounts DEF At
  <1>7. EvictionsUncounted' = EvictionsUncounted
    BY <1>4, <1>5, ProducerCounts
  <1>8. Sampled' = Sampled /\ Rejected' = Rejected
    BY <1>3, <1>4, FateCounts
  <1>9. Evicting'
    BY <1>1, <1>4, ProducerCounts
  <1>10. QED
    BY <1>1, <1>2, <1>3, <1>6, <1>7, <1>8, <1>9 DEF Counted, counters

\* How a call returns: the producer holds nothing, its event has a fate.
LEMMA ReturnCounts ==
    ASSUME Typed, Evicting, NEW p \in Producers, ~At(p, "idle"), NEW f \in Fates,
           Return(p, producer[p].event, f)
    PROVE  /\ AcceptsUncounted' = AcceptsUncounted \ {p}
           /\ EvictionsUncounted' = EvictionsUncounted \ {p}
           /\ producer[p].event \notin Sampled /\ producer[p].event \notin Rejected
           /\ Sampled' = IF f = "sampled" THEN Sampled \cup {producer[p].event} ELSE Sampled
           /\ Rejected' = IF f \in {"limited", "dropped"} THEN Rejected \cup {producer[p].event}
                                                         ELSE Rejected
           /\ Evicting'
  <1> DEFINE e == producer[p].event
  <1>1. /\ producer \in [Producers -> ProducerType] /\ fate \in [Events -> Fates]
        /\ e \in Events /\ fate[e] = "pending"
    BY DEF Typed, TypeOK, Busy, ProducerType
  <1>2. /\ producer'[p] = Idle /\ \A q \in Producers : q # p => producer'[q] = producer[q]
        /\ fate'[e] = f /\ \A x \in Events : x # e => fate'[x] = fate[x]
    BY <1>1 DEF Return
  <1>3. producer'[p].step = "idle" /\ producer'[p].evicting = FALSE
    BY <1>2 DEF Idle, Calling
  <1>4. AcceptsUncounted' = AcceptsUncounted \ {p} /\ EvictionsUncounted' = EvictionsUncounted \ {p}
    BY <1>2, <1>3, ProducerCounts DEF At
  <1>5. Evicting'
    BY <1>2, <1>3, ProducerCounts
  <1>6. /\ e \notin Sampled /\ e \notin Rejected
        /\ Sampled' = IF f = "sampled" THEN Sampled \cup {e} ELSE Sampled
        /\ Rejected' = IF f \in {"limited", "dropped"} THEN Rejected \cup {e} ELSE Rejected
    BY <1>1, <1>2, FateCounts
  <1>7. QED
    BY <1>4, <1>5, <1>6

LEMMA SampledOutCounts ==
    ASSUME CountInv, NEW p \in Producers, SampledOut(p)
    PROVE  Counted' /\ Evicting'
  <1> DEFINE e == producer[p].event
  <1>1. Typed /\ Counted /\ Evicting
    BY DEF CountInv, KeepInv, PhaseInv
  <1>2. /\ ~At(p, "idle") /\ "sampled" \in Fates /\ Return(p, e, "sampled")
        /\ sampled' = sampled + 1 /\ UNCHANGED <<accepted, dropped>>
    BY DEF SampledOut, At, Fates
  <1>3. Admitted' = Admitted /\ UNCHANGED evicted
    <2>1. Enqueue(p) /\ ~TryPush(p)
      BY DEF Enqueue, SampledOut, TryPush, At
    <2>2. QED
      BY <1>1, <2>1, EnqueueAdmits
  <1>4. p \notin AcceptsUncounted /\ p \notin EvictionsUncounted
    BY <1>1 DEF SampledOut, AcceptsUncounted, EvictionsUncounted, Evicting, At
  <1>5. /\ AcceptsUncounted' = AcceptsUncounted \ {p} /\ EvictionsUncounted' = EvictionsUncounted \ {p}
        /\ e \notin Sampled /\ Sampled' = Sampled \cup {e} /\ Rejected' = Rejected /\ Evicting'
    BY <1>1, <1>2, ReturnCounts
  <1>6. AcceptsUncounted' = AcceptsUncounted /\ EvictionsUncounted' = EvictionsUncounted
    BY <1>4, <1>5
  <1>7. Cardinality(Sampled') = Cardinality(Sampled) + 1
    BY <1>1, <1>5, CountedSets, OneMore
  <1>8. QED
    BY <1>1, <1>2, <1>3, <1>5, <1>6, <1>7 DEF Counted

LEMMA RateLimitedCounts ==
    ASSUME CountInv, NEW p \in Producers, RateLimited(p)
    PROVE  Counted' /\ Evicting'
  <1> DEFINE e == producer[p].event
  <1>1. Typed /\ Counted /\ Evicting
    BY DEF CountInv, KeepInv, PhaseInv
  <1>2. /\ ~At(p, "idle") /\ "limited" \in Fates /\ Return(p, e, "limited")
        /\ dropped' = dropped + 1 /\ UNCHANGED <<accepted, sampled>>
    BY DEF RateLimited, At, Fates
  <1>3. Admitted' = Admitted /\ UNCHANGED evicted
    <2>1. Enqueue(p) /\ ~TryPush(p)
      BY DEF Enqueue, RateLimited, TryPush, At
    <2>2. QED
      BY <1>1, <2>1, EnqueueAdmits
  <1>4. p \notin AcceptsUncounted /\ p \notin EvictionsUncounted
    BY <1>1 DEF RateLimited, AcceptsUncounted, EvictionsUncounted, Evicting, At
  <1>5. /\ AcceptsUncounted' = AcceptsUncounted \ {p} /\ EvictionsUncounted' = EvictionsUncounted \ {p}
        /\ e \notin Rejected /\ Rejected' = Rejected \cup {e} /\ Sampled' = Sampled /\ Evicting'
    BY <1>1, <1>2, ReturnCounts
  <1>6. AcceptsUncounted' = AcceptsUncounted /\ EvictionsUncounted' = EvictionsUncounted
    BY <1>4, <1>5
  <1>7. Cardinality(Rejected') = Cardinality(Rejected) + 1
    BY <1>1, <1>5, CountedSets, OneMore
  <1>8. dropped' + Cardinality(EvictionsUncounted') = Cardinality(Rejected') + Cardinality(evicted')
    BY <1>1, <1>2, <1>3, <1>6, <1>7, CountedSets DEF Counted
  <1>9. QED
    BY <1>1, <1>2, <1>3, <1>5, <1>6, <1>8 DEF Counted

LEMMA CountAcceptedCounts ==
    ASSUME CountInv, NEW p \in Producers, CountAccepted(p)
    PROVE  Counted' /\ Evicting'
  <1> DEFINE e == producer[p].event
  <1>1. Typed /\ Counted /\ Evicting
    BY DEF CountInv, KeepInv, PhaseInv
  <1>2. /\ At(p, "count_accepted") /\ ~At(p, "idle") /\ "accepted" \in Fates
        /\ accepted' = accepted + 1 /\ UNCHANGED <<sampled, dropped>>
        /\ \/ producer[p].evicting /\ Goto(p, "count_dropped", e, TRUE) /\ UNCHANGED fate
           \/ ~producer[p].evicting /\ Return(p, e, "accepted")
    BY DEF CountAccepted, At, Fates
  <1>3. Admitted' = Admitted /\ UNCHANGED evicted
    <2>1. Enqueue(p) /\ ~TryPush(p)
      BY DEF Enqueue, CountAccepted, TryPush, At
    <2>2. QED
      BY <1>1, <2>1, EnqueueAdmits
  <1>4. p \in AcceptsUncounted
    BY <1>2 DEF AcceptsUncounted
  <1>5. /\ AcceptsUncounted' = AcceptsUncounted \ {p} /\ EvictionsUncounted' = EvictionsUncounted
        /\ Sampled' = Sampled /\ Rejected' = Rejected /\ Evicting'
    <2>1. CASE producer[p].evicting /\ Goto(p, "count_dropped", e, TRUE) /\ UNCHANGED fate
      <3>1. producer \in [Producers -> ProducerType]
        BY <1>1 DEF Typed, TypeOK, ProducerType
      <3>2. /\ producer'[p].step = "count_dropped" /\ producer'[p].evicting = TRUE
            /\ \A q \in Producers : q # p => producer'[q] = producer[q]
        BY <2>1, <3>1 DEF Goto, Calling
      <3>3. AcceptsUncounted' = AcceptsUncounted \ {p}
        BY <3>2, ProducerCounts DEF At
      <3>4. EvictionsUncounted' = EvictionsUncounted \cup {p} /\ p \in EvictionsUncounted
        BY <2>1, <3>2, ProducerCounts DEF EvictionsUncounted
      <3>5. Evicting'
        BY <1>1, <3>2, ProducerCounts DEF At
      <3>6. Sampled' = Sampled /\ Rejected' = Rejected
        BY <2>1 DEF Sampled, Rejected
      <3>7. EvictionsUncounted' = EvictionsUncounted
        BY <3>4
      <3>8. QED
        BY <3>3, <3>5, <3>6, <3>7
    <2>2. CASE ~producer[p].evicting /\ Return(p, e, "accepted")
      <3>1. p \notin EvictionsUncounted
        BY <2>2 DEF EvictionsUncounted
      <3>2. /\ AcceptsUncounted' = AcceptsUncounted \ {p}
            /\ EvictionsUncounted' = EvictionsUncounted \ {p}
            /\ Sampled' = Sampled /\ Rejected' = Rejected /\ Evicting'
        BY <1>1, <1>2, <2>2, ReturnCounts
      <3>3. QED
        BY <3>1, <3>2
    <2>3. QED
      BY <1>2, <2>1, <2>2
  <1>6. /\ Cardinality(AcceptsUncounted) = Cardinality(AcceptsUncounted') + 1
        /\ Cardinality(AcceptsUncounted') \in Nat
    BY <1>1, <1>4, <1>5, CountedSets, OneLess
  <1>7. accepted' + Cardinality(AcceptsUncounted') = Cardinality(Admitted')
    BY <1>1, <1>2, <1>3, <1>6, CountedSets DEF Counted
  <1>8. QED
    BY <1>1, <1>2, <1>3, <1>5, <1>7 DEF Counted

LEMMA CountDroppedCounts ==
    ASSUME CountInv, NEW p \in Producers, CountDropped(p)
    PROVE  Counted' /\ Evicting'
  <1> DEFINE e == producer[p].event
             f == IF producer[p].evicting THEN "accepted" ELSE "dropped"
  <1>1. Typed /\ Counted /\ Evicting
    BY DEF CountInv, KeepInv, PhaseInv
  <1>2. /\ At(p, "count_dropped") /\ ~At(p, "idle") /\ f \in Fates /\ Return(p, e, f)
        /\ dropped' = dropped + 1 /\ UNCHANGED <<accepted, sampled>>
    BY DEF CountDropped, At, Fates
  <1>3. Admitted' = Admitted /\ UNCHANGED evicted
    <2>1. Enqueue(p) /\ ~TryPush(p)
      BY DEF Enqueue, CountDropped, TryPush, At
    <2>2. QED
      BY <1>1, <2>1, EnqueueAdmits
  <1>4. p \notin AcceptsUncounted
    BY <1>2 DEF AcceptsUncounted, At
  <1>5. /\ AcceptsUncounted' = AcceptsUncounted \ {p} /\ EvictionsUncounted' = EvictionsUncounted \ {p}
        /\ e \notin Rejected
        /\ Sampled' = IF f = "sampled" THEN Sampled \cup {e} ELSE Sampled
        /\ Rejected' = IF f \in {"limited", "dropped"} THEN Rejected \cup {e} ELSE Rejected
        /\ Evicting'
    BY <1>1, <1>2, ReturnCounts
  <1>6. AcceptsUncounted' = AcceptsUncounted /\ Sampled' = Sampled
    BY <1>4, <1>5
  <1>7. dropped' + Cardinality(EvictionsUncounted') = Cardinality(Rejected') + Cardinality(evicted')
    <2>1. CASE producer[p].evicting
      <3>1. p \in EvictionsUncounted /\ Rejected' = Rejected
        BY <1>5, <2>1 DEF EvictionsUncounted
      <3>2. /\ Cardinality(EvictionsUncounted) = Cardinality(EvictionsUncounted') + 1
            /\ Cardinality(EvictionsUncounted') \in Nat
        BY <1>1, <1>5, <3>1, CountedSets, OneLess
      <3>3. QED
        BY <1>1, <1>2, <1>3, <3>1, <3>2, CountedSets DEF Counted
    <2>2. CASE ~producer[p].evicting
      <3>1. p \notin EvictionsUncounted /\ Rejected' = Rejected \cup {e}
        BY <1>5, <2>2 DEF EvictionsUncounted
      <3>2. EvictionsUncounted' = EvictionsUncounted
        BY <1>5, <3>1
      <3>3. Cardinality(Rejected') = Cardinality(Rejected) + 1
        BY <1>1, <1>5, <3>1, CountedSets, OneMore
      <3>4. QED
        BY <1>1, <1>2, <1>3, <3>2, <3>3, CountedSets DEF Counted
    <2>3. QED
      BY <2>1, <2>2
  <1>8. QED
    BY <1>1, <1>2, <1>3, <1>5, <1>6, <1>7 DEF Counted

LEMMA TryPushCounts ==
    ASSUME CountInv, NEW p \in Producers, TryPush(p)
    PROVE  Counted' /\ Evicting'
  <1> DEFINE e == producer[p].event
             r == PushResult(queue, closed, Policy, MaxSize, e)
             evicts == r.ok /\ r.dropped = 1
             h == Head(queue)
  <1>1. Typed /\ TypeOK /\ Counted /\ Evicting
    BY DEF CountInv, KeepInv, PhaseInv, Typed
  <1>2. /\ At(p, "push") /\ UNCHANGED <<accepted, dropped, sampled, fate>>
        /\ evicted' = IF evicts THEN evicted \cup {h} ELSE evicted
        /\ Goto(p, IF r.ok THEN "count_accepted" ELSE "count_dropped", e, evicts)
    BY DEF TryPush, counters
  <1>3. /\ e \in Events /\ e \notin Admitted
        /\ Admitted' = IF r.ok THEN Admitted \cup {e} ELSE Admitted
    BY <1>1, PushAdmits
  <1>4. r.ok \in BOOLEAN
    BY <1>1, <1>3, PushCases
  <1>5. /\ producer'[p] = Calling(IF r.ok THEN "count_accepted" ELSE "count_dropped", e, evicts)
        /\ \A q \in Producers : q # p => producer'[q] = producer[q]
    <2>1. producer \in [Producers -> ProducerType]
      BY <1>1 DEF TypeOK, ProducerType
    <2>2. QED
      BY <1>2, <2>1 DEF Goto
  <1>6. p \notin AcceptsUncounted /\ p \notin EvictionsUncounted
    BY <1>1, <1>2 DEF AcceptsUncounted, EvictionsUncounted, Evicting, At
  <1>7. Sampled' = Sampled /\ Rejected' = Rejected
    BY <1>2 DEF Sampled, Rejected
  <1> HIDE DEF r
  <1>c. /\ producer'[p].step = IF r.ok THEN "count_accepted" ELSE "count_dropped"
        /\ producer'[p].evicting = evicts
    <2> HIDE DEF evicts
    <2>1. QED
      BY <1>5 DEF Calling
  <1>8. Evicting'
    <2>1. producer'[p].step \in {"count_accepted", "count_dropped"}
      BY <1>c
    <2>2. QED
      BY <1>1, <1>5, <2>1, ProducerCounts DEF At
  <1>9. CASE ~r.ok
    <2>1. producer'[p].step = "count_dropped" /\ ~producer'[p].evicting
      <3>1. ~evicts
        BY <1>9
      <3> HIDE DEF evicts
      <3>2. QED
        BY <1>c, <1>9, <3>1
    <2>2. AcceptsUncounted' = AcceptsUncounted
      BY <1>5, <1>6, <2>1, ProducerCounts DEF At
    <2>3. EvictionsUncounted' = EvictionsUncounted
      BY <1>5, <1>6, <2>1, ProducerCounts
    <2>4. evicted' = evicted /\ Admitted' = Admitted
      BY <1>2, <1>3, <1>9
    <2>5. QED
      BY <1>1, <1>2, <1>7, <1>8, <2>2, <2>3, <2>4 DEF Counted
  <1>10. ASSUME r.ok
         PROVE  accepted' + Cardinality(AcceptsUncounted') = Cardinality(Admitted')
    <2>1. producer'[p].step = "count_accepted"
      BY <1>c, <1>10
    <2>2. AcceptsUncounted' = AcceptsUncounted \cup {p}
      BY <1>5, <2>1, ProducerCounts DEF At
    <2>3. Cardinality(AcceptsUncounted') = Cardinality(AcceptsUncounted) + 1
      BY <1>1, <1>6, <2>2, CountedSets, OneMore
    <2>4. Admitted' = Admitted \cup {e}
      BY <1>3, <1>10
    <2>5. Cardinality(Admitted') = Cardinality(Admitted) + 1
      BY <1>1, <1>3, <2>4, CountedSets, OneMore
    <2>6. QED
      BY <1>1, <1>2, <2>3, <2>5, CountedSets DEF Counted
  <1>11. CASE r.ok /\ r.dropped # 1
    <2>1. ~producer'[p].evicting
      <3>1. ~evicts
        BY <1>11
      <3> HIDE DEF evicts
      <3>2. QED
        BY <1>c, <3>1
    <2>2. EvictionsUncounted' = EvictionsUncounted
      BY <1>5, <1>6, <2>1, ProducerCounts
    <2>3. evicted' = evicted
      BY <1>2, <1>11
    <2>4. QED
      BY <1>1, <1>2, <1>7, <1>8, <1>10, <1>11, <2>2, <2>3 DEF Counted
  <1>12. CASE r.ok /\ r.dropped = 1
    <2>1. producer'[p].evicting
      <3>1. evicts
        BY <1>12
      <3> HIDE DEF evicts
      <3>2. QED
        BY <1>c, <3>1
    <2>2. EvictionsUncounted' = EvictionsUncounted \cup {p}
      BY <1>5, <2>1, ProducerCounts
    <2>3. Cardinality(EvictionsUncounted') = Cardinality(EvictionsUncounted) + 1
      BY <1>1, <1>6, <2>2, CountedSets, OneMore
    <2>4. h \notin evicted
      <3>1. queue # <<>>
        BY <1>1, <1>3, <1>12, PushCases DEF r
      <3>2. queue \in Seq(Events)
        BY <1>1 DEF TypeOK
      <3>3. h \in EventsIn(queue)
        BY <3>1, <3>2, EventsInTail
      <3>4. h \in InFlight(0)
        BY <3>3, ConstantFacts, InFlightIs
      <3>5. evicted \cap InFlight(0) = {}
        BY ConstantFacts DEF CountInv, KeepInv, Conserved, NoDuplicates
      <3>6. QED
        BY <3>4, <3>5
    <2>5. evicted' = evicted \cup {h}
      BY <1>2, <1>12
    <2>6. Cardinality(evicted') = Cardinality(evicted) + 1
      BY <1>1, <2>4, <2>5, CountedSets, OneMore
    <2>7. dropped' + Cardinality(EvictionsUncounted') = Cardinality(Rejected') + Cardinality(evicted')
      BY <1>1, <1>2, <1>7, <2>3, <2>6, CountedSets DEF Counted
    <2>8. QED
      BY <1>1, <1>2, <1>7, <1>8, <1>10, <1>12, <2>7 DEF Counted
  <1>13. QED
    BY <1>4, <1>9, <1>11, <1>12

LEMMA NextCounts == CountInv /\ [Next]_vars => CountInv'
  <1> SUFFICES ASSUME CountInv, [Next]_vars PROVE CountInv'
    OBVIOUS
  <1>1. KeepInv'
    BY NextConserves DEF CountInv
  <1>2. ASSUME Admitted' = Admitted, UNCHANGED <<producer, fate, evicted, counters>>
        PROVE  Counted' /\ Evicting'
    BY <1>2, SameCounted DEF CountInv
  <1>3. ASSUME UNCHANGED <<producer, fate>> PROVE Admitted' = Admitted
    BY <1>3 DEF Admitted, At
  <1>4. ASSUME UNCHANGED vars PROVE Counted' /\ Evicting'
    <2>1. UNCHANGED <<producer, fate, evicted, counters>>
      BY <1>4 DEF vars
    <2>2. QED
      BY <1>2, <1>3, <2>1
  <1>5. ASSUME Start \/ Stop \/ \E b \in RuntimeBatchSizes : UpdateRuntimeConfig(b)
        PROVE  Counted' /\ Evicting'
    <2>1. UNCHANGED <<producer, fate, evicted, counters>>
      BY <1>5 DEF Start, Stop, StopBegins, CloseQueue, JoinWorkers, StopSinks, ControlUnchanged,
                  UpdateRuntimeConfig
    <2>2. QED
      BY <1>2, <1>3, <2>1
  <1>6. ASSUME NEW w \in Workers, Work(w) PROVE Counted' /\ Evicting'
    <2>1. UNCHANGED <<producer, fate, evicted, counters>>
      BY <1>6, WorkFrame DEF CountInv, KeepInv, PhaseInv, Typed
    <2>2. QED
      BY <1>2, <1>3, <2>1
  <1>7. ASSUME NEW p \in Producers, Enqueue(p) PROVE Counted' /\ Evicting'
    BY <1>7, SampledOutCounts, RateLimitedCounts, TryPushCounts, CountAcceptedCounts,
       CountDroppedCounts DEF Enqueue
  <1>8. ASSUME NEW p \in Producers, NEW e \in Events, EnqueueRefused(p, e) \/ EnqueueBegins(p, e)
        PROVE  Counted' /\ Evicting'
    BY <1>8, EnqueueBeginsCounts
  <1>9. QED
    BY <1>1, <1>4, <1>5, <1>6, <1>7, <1>8 DEF Next, CountInv

LEMMA InitCounts == Init => CountInv
  <1> SUFFICES ASSUME Init PROVE CountInv
    OBVIOUS
  <1>1. KeepInv
    BY InitConserved
  <1>2. /\ \A p \in Producers : producer[p].step = "idle" /\ producer[p].evicting = FALSE
        /\ \A e \in Events : fate[e] = "new"
        /\ evicted = {} /\ accepted = 0 /\ dropped = 0 /\ sampled = 0
    BY DEF Init, Idle, Calling
  <1>3. AcceptsUncounted = {} /\ EvictionsUncounted = {} /\ Sampled = {} /\ Rejected = {}
    BY <1>2 DEF AcceptsUncounted, EvictionsUncounted, Sampled, Rejected, At
  <1>4. Admitted = {}
    BY <1>2, AdmittedIs DEF Holds, At
  <1>5. Cardinality({}) = 0
    BY FS_EmptySet
  <1>6. Counted /\ Evicting
    BY <1>2, <1>3, <1>4, <1>5 DEF Counted, Evicting
  <1>7. QED
    BY <1>1, <1>6 DEF CountInv

(* The three counters agree with what the callers were told, whatever the  *)
(* interleaving of pushes and counts: an eviction is counted once, by the  *)
(* call that caused it, and a drop is never counted as accepted.           *)
THEOREM CountersCorrect == SafeSpec => []CountersAgree
  <1>1. CountInv => CountersAgree
    BY CountersAre DEF CountInv
  <1>2. QED
    BY <1>1, InitCounts, NextCounts, PTL DEF SafeSpec

-----------------------------------------------------------------------------
(* The order of the events in the line to an output.                       *)

LEMMA BeginsItself ==
    ASSUME NEW s \in Seq(Events)
    PROVE  IsPrefix(s, s)
  <1>1. Len(s) \in Nat
    BY SeqFacts
  <1>2. QED
    BY <1>1 DEF IsPrefix

\* A push adds at the end of the line...
LEMMA PushedLine ==
    ASSUME NEW a \in Seq(Events), NEW q \in Seq(Events), NEW e \in Events
    PROVE  IsPrefix(a \o q, a \o Append(q, e))
  <1> DEFINE s == a \o q
  <1>1. s \in Seq(Events) /\ <<e>> \in Seq(Events) /\ Len(s) \in Nat
    BY EventsInConcat, SeqFacts
  <1>2. a \o Append(q, e) = s \o <<e>>
    <2>1. Append(q, e) = q \o <<e>>
      BY AppendIsConcat
    <2>2. QED
      BY <1>1, <2>1, ConcatAssociative
  <1>3. s \o <<e>> \in Seq(Events) /\ Len(s \o <<e>>) = Len(s) + 1
    BY <1>1, ConcatProperties
  <1>4. SubSeq(s \o <<e>>, 1, Len(s)) = s
    <2>1. CASE Len(s) = 0
      <3>1. s = <<>>
        BY <1>1, <2>1
      <3>2. SubSeq(s \o <<e>>, 1, Len(s)) = <<>>
        BY <2>1, SubSeqEmpty
      <3>3. QED
        BY <3>1, <3>2
    <2>2. CASE Len(s) >= 1
      <3>1. 1 \in 1 .. Len(s) /\ Len(s) \in 1 .. Len(s)
        BY <1>1, <2>2
      <3>2. SubSeq(s \o <<e>>, 1, Len(s)) = SubSeq(s, 1, Len(s))
        BY <1>1, <3>1, SubSeqOfConcat1
      <3>3. QED
        BY <1>1, <3>2, SubSeqFull
    <2>3. QED
      BY <1>1, <2>1, <2>2
  <1>5. SubSeq(s, 1, Len(s)) = s
    BY <1>1, SubSeqFull
  <1>6. QED
    BY <1>1, <1>2, <1>3, <1>4, <1>5 DEF IsPrefix

\* ... and DropOldest takes out the first event of the queue.
LEMMA EvictedLine ==
    ASSUME NEW a \in Seq(Events), NEW q \in Seq(Events), q # <<>>, NEW e \in Events
    PROVE  \E i \in DOMAIN (a \o q) :
               /\ (a \o q)[i] = Head(q)
               /\ IsPrefix(RemoveAt(a \o q, i), a \o Append(Tail(q), e))
  <1>i. PICK i, s : i = Len(a) + 1 /\ s = a \o q
    OBVIOUS
  <1>1. /\ Len(a) \in Nat /\ Len(q) \in Nat /\ Len(q) >= 1 /\ Head(q) = q[1]
        /\ Tail(q) \in Seq(Events) /\ Len(Tail(q)) = Len(q) - 1
        /\ \A j \in 1 .. Len(q) - 1 : Tail(q)[j] = q[j + 1]
    BY EventsInTail, SeqFacts, HeadTailProperties
  <1>2. /\ s \in Seq(Events) /\ Len(s) = Len(a) + Len(q)
        /\ \A j \in 1 .. Len(a) + Len(q) : s[j] = IF j <= Len(a) THEN a[j] ELSE q[j - Len(a)]
    BY <1>i, ConcatProperties
  <1>3. DOMAIN s = 1 .. Len(s) /\ \A j \in 1 .. Len(s) : s[j] \in Events
    BY <1>2
  <1>4. i \in DOMAIN s /\ s[i] = Head(q)
    <2>1. i \in 1 .. Len(s) /\ ~(i <= Len(a)) /\ i - Len(a) = 1
      BY <1>1, <1>2, <1>i
    <2>2. QED
      BY <1>1, <1>2, <1>3, <2>1
  <1>5. SubSeq(s, 1, i - 1) = a
    <2>1. \A j \in 1 .. i - 1 : j \in 1 .. Len(a) /\ j \in 1 .. Len(s) /\ s[j] = a[j]
      BY <1>1, <1>2, <1>i
    <2>2. \A j \in 1 .. i - 1 : s[j] \in Events
      BY <1>3, <2>1
    <2>3. 1 \in Int /\ i - 1 \in Int /\ i - 1 = Len(a)
      BY <1>1, <1>i
    <2>4. /\ SubSeq(s, 1, i - 1) \in Seq(Events)
          /\ Len(SubSeq(s, 1, i - 1)) = IF 1 <= i - 1 THEN (i - 1) - 1 + 1 ELSE 0
          /\ \A j \in 1 .. (i - 1) - 1 + 1 : SubSeq(s, 1, i - 1)[j] = s[1 + j - 1]
      BY <2>2, <2>3, SubSeqProperties
    <2>5. Len(SubSeq(s, 1, i - 1)) = Len(a)
      BY <1>1, <2>3, <2>4
    <2>6. \A j \in 1 .. Len(a) : SubSeq(s, 1, i - 1)[j] = s[j]
      BY <1>1, <2>3, <2>4
    <2>7. \A j \in 1 .. Len(a) : SubSeq(s, 1, i - 1)[j] = a[j]
      BY <2>1, <2>3, <2>6
    <2>8. QED
      BY <2>4, <2>5, <2>7, SeqEqual
  <1>6. SubSeq(s, i + 1, Len(s)) = Tail(q)
    <2>1. \A j \in i + 1 .. Len(s) : s[j] \in Events
      BY <1>1, <1>2, <1>3, <1>i
    <2>2. i + 1 \in Int /\ Len(s) \in Int /\ Len(s) - (i + 1) + 1 = Len(q) - 1
      BY <1>1, <1>2, <1>i
    <2>3. /\ SubSeq(s, i + 1, Len(s)) \in Seq(Events)
          /\ Len(SubSeq(s, i + 1, Len(s))) = IF i + 1 <= Len(s) THEN Len(s) - (i + 1) + 1 ELSE 0
          /\ \A j \in 1 .. Len(s) - (i + 1) + 1 :
                 SubSeq(s, i + 1, Len(s))[j] = s[(i + 1) + j - 1]
      BY <2>1, <2>2, SubSeqProperties
    <2>4. Len(SubSeq(s, i + 1, Len(s))) = Len(Tail(q))
      BY <1>1, <1>2, <2>2, <2>3
    <2>5. \A j \in 1 .. Len(q) - 1 : SubSeq(s, i + 1, Len(s))[j] = s[(i + 1) + j - 1]
      BY <2>2, <2>3
    <2>6. ASSUME NEW j \in 1 .. Len(q) - 1
          PROVE  s[(i + 1) + j - 1] = Tail(q)[j]
      <3>0. (i + 1) + j - 1 \in Int
        BY <1>1, <1>i
      <3>1. PICK k \in Int : k = (i + 1) + j - 1
        BY <3>0
      <3>2. k \in 1 .. Len(a) + Len(q) /\ ~(k <= Len(a)) /\ k - Len(a) = j + 1
        BY <1>1, <1>i, <3>1
      <3>3. s[k] = q[j + 1]
        BY <1>2, <3>2
      <3>4. QED
        BY <1>1, <3>1, <3>3
    <2>7. \A j \in 1 .. Len(Tail(q)) : SubSeq(s, i + 1, Len(s))[j] = Tail(q)[j]
      BY <1>1, <2>5, <2>6
    <2>8. QED
      BY <1>1, <2>3, <2>4, <2>7, SeqEqual
  <1>7. QED
    <2>1. RemoveAt(s, i) = a \o Tail(q)
      BY <1>5, <1>6 DEF RemoveAt
    <2>2. IsPrefix(a \o Tail(q), a \o Append(Tail(q), e))
      BY <1>1, PushedLine
    <2>3. QED
      BY <1>i, <1>4, <2>1, <2>2

\* The front of the queue moved to the end of the batch is where it was.
LEMMA MovedLine ==
    ASSUME NEW a \in Seq(Events), NEW b \in Seq(Events), NEW q \in Seq(Events), q # <<>>
    PROVE  (a \o Append(b, Head(q))) \o Tail(q) = (a \o b) \o q
  <1>1. Head(q) \in Events /\ Tail(q) \in Seq(Events) /\ <<Head(q)>> \in Seq(Events)
    BY EventsInTail
  <1>2. Append(b, Head(q)) = b \o <<Head(q)>>
    BY <1>1, AppendIsConcat
  <1>3. a \o (b \o <<Head(q)>>) = (a \o b) \o <<Head(q)>> /\ a \o b \in Seq(Events)
    BY <1>1, ConcatAssociative, EventsInConcat
  <1>4. ((a \o b) \o <<Head(q)>>) \o Tail(q) = (a \o b) \o (<<Head(q)>> \o Tail(q))
    BY <1>1, <1>3, ConcatAssociative
  <1>5. <<Head(q)>> \o Tail(q) = q
    <2>1. 1 \in 1 .. Len(q) /\ Len(q) \in 1 .. Len(q) /\ Head(q) = q[1]
      BY EventsInTail
    <2>2. SubSeq(q, 1, Len(q)) = <<q[1]>> \o SubSeq(q, 1 + 1, Len(q))
      BY <2>1, SubSeqRecursiveFirst
    <2>3. Tail(q) = SubSeq(q, 2, Len(q))
      BY TailIsSubSeq
    <2>4. SubSeq(q, 1, Len(q)) = q
      BY SubSeqFull
    <2>5. QED
      BY <2>1, <2>2, <2>3, <2>4
  <1>6. QED
    BY <1>2, <1>3, <1>4, <1>5

\* The line without the queue: what output o was given and the batch it has still to be given.
Ahead(o, w) == out[o] \o (IF sent[w] <= o THEN batch[w] ELSE <<>>)

LEMMA AheadTyped ==
    ASSUME TypeOK, NEW w \in Workers, NEW o \in Outputs
    PROVE  /\ Ahead(o, w) \in Seq(Events) /\ queue \in Seq(Events)
           /\ Line(o, w) = Ahead(o, w) \o queue
           /\ Line(o, w) \in Seq(Events)
  <1>1. out[o] \in Seq(Events) /\ batch[w] \in Seq(Events) /\ queue \in Seq(Events)
    BY DEF TypeOK
  <1>2. Ahead(o, w) \in Seq(Events)
    BY <1>1, EventsInEmpty, EventsInConcat DEF Ahead
  <1>3. Line(o, w) = Ahead(o, w) \o queue
    BY DEF Line, Ahead
  <1>4. QED
    BY <1>1, <1>2, <1>3, EventsInConcat

LEMMA SameLine ==
    ASSUME TypeOK, NEW w \in Workers, NEW o \in Outputs, Line(o, w)' = Line(o, w)
    PROVE  KeepsOrder(o, w)
  BY AheadTyped, BeginsItself DEF KeepsOrder

LEMMA UntouchedLine ==
    ASSUME TypeOK, NEW w \in Workers, NEW o \in Outputs, UNCHANGED <<queue, batch, sent, out>>
    PROVE  KeepsOrder(o, w)
  <1>1. Line(o, w)' = Line(o, w)
    BY DEF Line
  <1>2. QED
    BY <1>1, SameLine

LEMMA PushKeepsOrder ==
    ASSUME Typed, NEW w \in Workers, NEW o \in Outputs, NEW p \in Producers, TryPush(p)
    PROVE  KeepsOrder(o, w)
  <1> DEFINE e == producer[p].event
             g == Ahead(o, w)
             r == PushResult(queue, closed, Policy, MaxSize, e)
  <1>1. e \in Events /\ TypeOK
    BY DEF TryPush, At, Typed, Busy
  <1>2. /\ g \in Seq(Events) /\ queue \in Seq(Events)
        /\ Line(o, w) = g \o queue
    BY <1>1, AheadTyped
  <1>3. UNCHANGED <<batch, sent, out>>
    BY DEF TryPush, workerVars
  <1>4. Line(o, w)' = g \o queue'
    BY <1>3 DEF Line, Ahead
  <1>5. /\ queue' = r.items
        /\ evicted' = IF r.ok /\ r.dropped = 1 THEN evicted \cup {Head(queue)} ELSE evicted
    BY DEF TryPush
  <1>6. CASE ~r.ok /\ r.items = queue
    BY <1>1, <1>2, <1>4, <1>5, <1>6, SameLine
  <1>7. CASE r.items = Append(queue, e)
    <2>1. IsPrefix(g \o queue, g \o Append(queue, e))
      BY <1>1, <1>2, PushedLine
    <2>2. IsPrefix(Line(o, w), Line(o, w)')
      BY <1>2, <1>4, <1>5, <1>7, <2>1
    <2>3. QED
      BY <2>2 DEF KeepsOrder
  <1>8. CASE r.ok /\ r.dropped = 1 /\ queue # <<>> /\ r.items = Append(Tail(queue), e)
    <2>1. Head(queue) \in evicted'
      BY <1>5, <1>8
    <2>2. \E i \in DOMAIN (g \o queue) :
              /\ (g \o queue)[i] = Head(queue)
              /\ IsPrefix(RemoveAt(g \o queue, i), g \o Append(Tail(queue), e))
      BY <1>1, <1>2, <1>8, EvictedLine
    <2>3. \E i \in DOMAIN Line(o, w) :
              /\ Line(o, w)[i] = Head(queue)
              /\ IsPrefix(RemoveAt(Line(o, w), i), Line(o, w)')
      BY <1>2, <1>4, <1>5, <1>8, <2>2
    <2>4. QED
      BY <2>1, <2>3 DEF KeepsOrder
  <1>9. QED
    BY <1>1, <1>6, <1>7, <1>8, PushCases

LEMMA TakeKeepsOrder ==
    ASSUME PhaseInv, NEW w \in Workers, NEW o \in Outputs,
           PopFirst(w) \/ Fill(w) \/ Drain(w)
    PROVE  KeepsOrder(o, w)
  <1>1. /\ TypeOK /\ out[o] \in Seq(Events) /\ batch[w] \in Seq(Events) /\ queue \in Seq(Events)
        /\ batch \in [Workers -> Seq(Events)]
    BY DEF PhaseInv, Typed, TypeOK
  <1>2. /\ TakeFront(w) /\ UNCHANGED <<sent, out>>
        /\ worker[w] \notin Publishing
    BY DEF PopFirst, Fill, Drain, WorkerGoto, Publishing
  <1>3. sent[w] <= o
    BY <1>2, ConstantFacts DEF PhaseInv, Hands, Outputs
  <1>4. /\ queue # <<>> /\ queue' = Tail(queue)
        /\ batch'[w] = Append(batch[w], Head(queue))
    BY <1>1, <1>2 DEF TakeFront
  <1>5. Line(o, w) = (out[o] \o batch[w]) \o queue
    BY <1>3 DEF Line
  <1>6. Line(o, w)' = (out[o] \o Append(batch[w], Head(queue))) \o Tail(queue)
    BY <1>2, <1>3, <1>4 DEF Line
  <1>7. Line(o, w)' = Line(o, w)
    BY <1>1, <1>4, <1>5, <1>6, MovedLine
  <1>8. QED
    BY <1>1, <1>7, SameLine

LEMMA HandOverKeepsOrder ==
    ASSUME PhaseInv, NEW w \in Workers, NEW o \in Outputs, HandOver(w)
    PROVE  KeepsOrder(o, w)
  <1>k. PICK k \in Outputs : k = sent[w]
    BY DEF PhaseInv, Typed, TypeOK
  <1>1. /\ batch \in [Workers -> Seq(Events)] /\ out \in [Outputs -> Seq(Events)]
        /\ sent \in [Workers -> Outputs] /\ TypeOK
        /\ out[o] \in Seq(Events) /\ batch[w] \in Seq(Events)
    BY DEF PhaseInv, Typed, TypeOK
  <1>2. /\ queue' = queue
        /\ out'[k] = out[k] \o batch[w]
        /\ o # k => out'[o] = out[o]
    BY <1>k, <1>1 DEF HandOver, WorkerUnchanged
  <1>3. \/ k < NumSinks /\ sent'[w] = k + 1 /\ batch'[w] = batch[w]
        \/ k = NumSinks /\ sent'[w] = 0 /\ batch'[w] = <<>>
    BY <1>k, <1>1 DEF HandOver, ClearBatch
  <1>4. o \in Nat /\ k \in Nat /\ o <= NumSinks /\ NumSinks \in Nat
    BY ConstantFacts DEF Outputs
  <1> DEFINE rest == IF sent[w] <= o THEN batch[w] ELSE <<>>
             rest2 == IF sent'[w] <= o THEN batch'[w] ELSE <<>>
  <1>5. Line(o, w) = (out[o] \o rest) \o queue /\ Line(o, w)' = (out'[o] \o rest2) \o queue
    BY <1>2 DEF Line
  <1>6. out'[o] \o rest2 = out[o] \o rest
    <2>1. CASE o = k
      <3>1. rest = batch[w]
        BY <1>k, <1>4, <2>1
      <3>2. rest2 = <<>>
        BY <1>3, <1>4, <2>1
      <3>3. out[o] \o batch[w] \in Seq(Events)
        BY <1>1, EventsInConcat
      <3>4. (out[o] \o batch[w]) \o <<>> = out[o] \o batch[w]
        BY <3>3, ConcatEmptySeq
      <3>5. QED
        BY <1>2, <2>1, <3>1, <3>2, <3>4
    <2>2. CASE o # k
      <3>1. rest2 = rest
        <4>1. k + 1 <= o <=> k <= o
          BY <1>4, <2>2
        <4>2. k = NumSinks => ~(k <= o)
          BY <1>4, <2>2
        <4>3. QED
          BY <1>k, <1>3, <4>1, <4>2
      <3>2. QED
        BY <1>2, <2>2, <3>1
    <2>3. QED
      BY <2>1, <2>2
  <1> HIDE DEF rest, rest2
  <1>7. Line(o, w)' = Line(o, w)
    BY <1>5, <1>6
  <1>8. QED
    BY <1>1, <1>7, SameLine

LEMMA NextKeepsOrder ==
    ASSUME PhaseInv, [Next]_vars, NEW w \in Workers, NEW o \in Outputs, Workers = {w}
    PROVE  KeepsOrder(o, w)
  <1>0. Typed /\ TypeOK
    BY DEF PhaseInv, Typed
  <1>1. CASE UNCHANGED vars
    BY <1>0, <1>1, UntouchedLine DEF vars, queueVars, workerVars
  <1>2. CASE \E p \in Producers, e \in Events : EnqueueRefused(p, e) \/ EnqueueBegins(p, e)
    BY <1>0, <1>2, UntouchedLine DEF EnqueueRefused, EnqueueBegins, queueVars, workerVars
  <1>3. CASE \E p \in Producers : Enqueue(p)
    <2>1. PICK p \in Producers : Enqueue(p)
      BY <1>3
    <2>2. CASE TryPush(p)
      BY <1>0, <2>2, PushKeepsOrder
    <2>3. CASE SampledOut(p) \/ RateLimited(p) \/ CountAccepted(p) \/ CountDropped(p)
      BY <1>0, <2>3, UntouchedLine
         DEF SampledOut, RateLimited, CountAccepted, CountDropped, queueVars, workerVars
    <2>4. QED
      BY <2>1, <2>2, <2>3 DEF Enqueue
  <1>4. CASE \E v \in Workers : Work(v)
    <2>1. Work(w)
      BY <1>4
    <2>2. CASE PopFirst(w) \/ Fill(w) \/ Drain(w)
      BY <2>2, TakeKeepsOrder
    <2>3. CASE HandOver(w)
      BY <2>3, HandOverKeepsOrder
    <2>4. CASE Loop(w) \/ LeaveLoop(w) \/ PopNothing(w) \/ Filled(w) \/ Drained(w)
      BY <1>0, <2>4, UntouchedLine DEF Loop, LeaveLoop, PopNothing, Filled, Drained
    <2>5. QED
      BY <2>1, <2>2, <2>3, <2>4 DEF Work
  <1>5. CASE Start \/ Stop
    BY <1>0, <1>5, UntouchedLine
       DEF Start, Stop, StopBegins, CloseQueue, JoinWorkers, StopSinks, ControlUnchanged
  <1>6. CASE \E b \in RuntimeBatchSizes : UpdateRuntimeConfig(b)
    BY <1>0, <1>6, UntouchedLine DEF UpdateRuntimeConfig, queueVars, workerVars
  <1>7. QED
    BY <1>1, <1>2, <1>3, <1>4, <1>5, <1>6 DEF Next

(* With one worker, an event keeps its place in what each output gets from *)
(* the push of try_push through pop_for and the batch to publish_batch;    *)
(* only an eviction takes one out.  The worker never pops between the      *)
(* hand-overs of a batch, so the batch is in its place for every output.   *)
THEOREM OrderIsKept == SafeSpec => OneWorkerKeepsOrder
  <1>1. PhaseInv /\ [Next]_vars =>
            [\A w \in Workers, o \in Outputs : Workers = {w} => KeepsOrder(o, w)]_vars
    BY NextKeepsOrder
  <1>2. QED
    BY <1>1, PhasesHold, PTL DEF SafeSpec, OneWorkerKeepsOrder

-----------------------------------------------------------------------------
(* Pipeline implements Delivery: every step of the pipeline is a step of   *)
(* Delivery under the mapping at the end of Pipeline, or leaves it as it   *)
(* is.  The steps are compared through three sets that the proofs above    *)
(* already follow: what was admitted, what was evicted and what an output  *)
(* was given.  An event owed to an output is one of the first that is in   *)
(* neither of the others.                                                  *)

\* Nothing is pushed before the first start, nor after a queue was closed.
PushesEnd ==
    /\ control = "created" => \A p \in Producers : ~At(p, "push")
    /\ control \in {"joining", "stopping_sinks", "stopped"} => closed

DeliveryInv == KeepInv /\ StopInv /\ PushesEnd

LEMMA NextPushesEnd ==
    ASSUME PhaseInv, PushesEnd, [Next]_vars
    PROVE  PushesEnd'
  <1>1. CASE UNCHANGED vars
    BY <1>1 DEF vars, queueVars, controlVars, PushesEnd, At
  <1>2. CASE \E p \in Producers, e \in Events : EnqueueRefused(p, e) \/ EnqueueBegins(p, e)
    <2>1. PICK p \in Producers, e \in Events : EnqueueRefused(p, e) \/ EnqueueBegins(p, e)
      BY <1>2
    <2>2. UNCHANGED <<closed, control>>
      BY <1>2, EnqueueFrame DEF controlVars
    <2>3. producer \in [Producers -> ProducerType]
      BY DEF PhaseInv, Typed, TypeOK, ProducerType
    <2>4. CASE EnqueueRefused(p, e)
      <3>1. \A q \in Producers : At(q, "push")' => At(q, "push")
        BY <2>3, <2>4 DEF EnqueueRefused, Return, Idle, Calling, At
      <3>2. QED
        BY <2>2, <3>1 DEF PushesEnd
    <2>5. CASE EnqueueBegins(p, e)
      BY <2>2, <2>5 DEF EnqueueBegins, PhaseInv, Phases, PushesEnd
    <2>6. QED
      BY <2>1, <2>4, <2>5
  <1>3. CASE \E p \in Producers : Enqueue(p)
    <2>1. PICK p \in Producers : Enqueue(p)
      BY <1>3
    <2>2. UNCHANGED <<closed, control>>
      BY <1>3, EnqueueFrame DEF controlVars
    <2>3. producer \in [Producers -> ProducerType]
      BY DEF PhaseInv, Typed, TypeOK, ProducerType
    <2>4. \A q \in Producers : At(q, "push")' => At(q, "push")
      BY <2>1, <2>3 DEF Enqueue, SampledOut, RateLimited, TryPush, CountAccepted, CountDropped,
                        Return, Goto, Idle, Calling, At
    <2>5. QED
      BY <2>2, <2>4 DEF PushesEnd
  <1>4. CASE \E w \in Workers : Work(w)
    <2>1. UNCHANGED <<producer, closed, control>>
      BY <1>4, WorkFrame DEF PhaseInv, Typed, controlVars
    <2>2. QED
      BY <2>1 DEF PushesEnd, At
  <1>5. CASE Start \/ Stop
    BY <1>5 DEF Start, Stop, StopBegins, CloseQueue, JoinWorkers, StopSinks, Control,
                ControlUnchanged, PushesEnd, At
  <1>6. CASE \E b \in RuntimeBatchSizes : UpdateRuntimeConfig(b)
    BY <1>6 DEF UpdateRuntimeConfig, queueVars, controlVars, PushesEnd, At
  <1>7. QED
    BY <1>1, <1>2, <1>3, <1>4, <1>5, <1>6 DEF Next

LEMMA DeliveryInvHolds == SafeSpec => []DeliveryInv
  <1>1. Init => PushesEnd
    BY DEF Init, PushesEnd, At, Idle, Calling
  <1>2. DeliveryInv /\ [Next]_vars => DeliveryInv'
    BY NextConserves, NextStop, NextPushesEnd DEF DeliveryInv, KeepInv
  <1>3. QED
    BY <1>1, <1>2, InitConserved, InitStop, PTL DEF SafeSpec, DeliveryInv

-----------------------------------------------------------------------------
(* The abstract state, by the three sets.                                  *)

Given(o) == EventsIn(out[o])

LEMMA PendingIs ==
    ASSUME KeepInv, NEW o \in Outputs
    PROVE  /\ InFlight(o) = Admitted \ (evicted \cup Given(o))
           /\ evicted \subseteq Admitted /\ Given(o) \subseteq Admitted
  BY DEF KeepInv, Conserved, NothingLost, NoDuplicates, Given

LEMMA TimesIs ==
    ASSUME KeepInv, NEW o \in Outputs, NEW e \in Events
    PROVE  Times(o, e) = IF e \in Given(o) THEN 1 ELSE 0
  <1> DEFINE s == out[o]
             P == {i \in DOMAIN s : s[i] = e}
  <1>1. s \in Seq(Events) /\ IsInjective(s)
    BY DEF KeepInv, PhaseInv, Typed, TypeOK, Conserved, NoDuplicates
  <1>2. DOMAIN s = 1 .. Len(s)
    BY <1>1
  <1>3. ByIndex(s)
    BY <1>1, SeqFacts
  <1>4. CASE e \in Given(o)
    <2>1. PICK i \in 1 .. Len(s) : s[i] = e
      BY <1>3, <1>4 DEF ByIndex, Given
    <2>2. \A j \in P : j = i
      BY <1>1, <1>2, <1>3, <2>1 DEF ByIndex
    <2>3. P = {i}
      BY <1>2, <2>1, <2>2
    <2>4. QED
      BY <1>4, <2>3, FS_Singleton DEF Times
  <1>5. CASE e \notin Given(o)
    <2>1. P = {}
      BY <1>2, <1>3, <1>5 DEF ByIndex, Given
    <2>2. QED
      BY <1>5, <2>1, FS_EmptySet DEF Times
  <1>6. QED
    BY <1>4, <1>5

\* The same two facts about the state a step leads to.
LEMMA PendingIsNext ==
    ASSUME KeepInv', NEW o \in Outputs
    PROVE  InFlight(o)' = Admitted' \ (evicted' \cup Given(o)')
  BY DEF KeepInv, Conserved, NothingLost, NoDuplicates, Given

LEMMA TimesAre ==
    KeepInv => \A o \in Outputs, e \in Events : Times(o, e) = IF e \in Given(o) THEN 1 ELSE 0
  BY TimesIs

LEMMA TimesAreNext ==
    KeepInv' => \A o \in Outputs, e \in Events :
                    Times(o, e)' = IF e \in Given(o)' THEN 1 ELSE 0
  <1>1. (KeepInv => \A o \in Outputs, e \in Events :
             Times(o, e) = IF e \in Given(o) THEN 1 ELSE 0)'
    BY TimesAre, PTL
  <1>2. QED
    BY <1>1

-----------------------------------------------------------------------------
(* The steps.                                                              *)

\* A step that neither admits, evicts nor hands over anything.
LEMMA SameView ==
    ASSUME KeepInv, KeepInv', Admitted' = Admitted, UNCHANGED <<evicted, out>>
    PROVE  /\ [o \in Outputs |-> InFlight(o)]' = [o \in Outputs |-> InFlight(o)]
           /\ [o \in Outputs |-> [e \in Events |-> Times(o, e)]]' =
                  [o \in Outputs |-> [e \in Events |-> Times(o, e)]]
  <1>1. \A o \in Outputs : Given(o)' = Given(o)
    BY DEF Given, EventsIn
  <1>2. \A o \in Outputs : InFlight(o)' = InFlight(o)
    BY <1>1, PendingIs, PendingIsNext
  <1>3. \A o \in Outputs, e \in Events : Times(o, e)' = Times(o, e)
    BY DEF Times
  <1>4. QED
    BY <1>2, <1>3

\* Known, in the abstract state, is Admitted.
LEMMA KnownIs ==
    ASSUME KeepInv, NEW e \in Events
    PROVE  Abs!Known(e) <=> e \in Admitted
  <1>1. \A o \in Outputs : Times(o, e) > 0 <=> e \in Given(o)
    BY TimesIs
  <1>2. Abs!Known(e) <=> e \in evicted \/ \E o \in Outputs : e \in InFlight(o) \/ Times(o, e) > 0
    BY DEF Abs!Known
  <1>3. \A o \in Outputs : Admitted = evicted \cup InFlight(o) \cup Given(o)
    BY DEF KeepInv, Conserved, NothingLost, Given
  <1>4. QED
    BY <1>1, <1>2, <1>3, ConstantFacts

LEMMA PushDelivers ==
    ASSUME DeliveryInv, DeliveryInv', NEW p \in Producers, TryPush(p)
    PROVE  [Abs!Next]_(Abs!vars)
  <1> DEFINE e == producer[p].event
             r == PushResult(queue, closed, Policy, MaxSize, e)
             D == IF r.ok /\ r.dropped = 1 THEN {Head(queue)} ELSE {}
  <1>1. /\ KeepInv /\ KeepInv' /\ Typed /\ TypeOK
        /\ e \in Events /\ e \notin Admitted
        /\ Admitted' = IF r.ok THEN Admitted \cup {e} ELSE Admitted
    BY PushAdmits DEF DeliveryInv, KeepInv, PhaseInv, Typed
  <1>2. /\ evicted' = evicted \cup D
        /\ UNCHANGED <<out, control, racing, closed>>
    BY DEF TryPush, workerVars, controlVars
  <1>3. Phase' = Phase
    BY <1>2 DEF Phase
  <1>4. CASE ~r.ok
    BY <1>1, <1>2, <1>3, <1>4, SameView DEF Abs!vars
  <1>5. CASE r.ok
    <2>1. ~closed
      BY <1>5 DEF PushResult
    <2>2. control \in {"started", "stopping"} /\ (control = "stopping" => e \in racing)
      BY <2>1 DEF TryPush, DeliveryInv, PushesEnd, StopInv, RacersKnown, Stopping, KeepInv, PhaseInv,
                  Typed, TypeOK, ControlSteps, At
    <2>3. Phase = "running" \/ (Phase = "stopping" /\ e \in racing)
      BY <2>2 DEF Phase
    <2>4. \A o \in Outputs : D \subseteq InFlight(o)
      <3>1. CASE r.dropped = 1
        <4>1. queue # <<>> /\ queue \in Seq(Events)
          BY <1>1, <1>5, <3>1, PushCases DEF TypeOK
        <4>2. Head(queue) \in EventsIn(queue)
          BY <4>1, EventsInTail
        <4>3. QED
          BY <4>2, InFlightIs
      <3>2. QED
        BY <3>1
    <2>5. \A o \in Outputs : Given(o)' = Given(o)
      BY <1>2 DEF Given, EventsIn
    <2>6. \A o \in Outputs : InFlight(o)' = (InFlight(o) \ D) \cup {e}
      <3>1. ASSUME NEW o \in Outputs
            PROVE  InFlight(o)' = (InFlight(o) \ D) \cup {e}
        <4>1. e \notin evicted /\ e \notin Given(o) /\ e \notin D
          BY <1>1, <2>4, PendingIs
        <4>2. QED
          BY <1>1, <1>2, <1>5, <2>5, <4>1, PendingIs, PendingIsNext
      <3>2. QED
        BY <3>1
    <2>7. [o \in Outputs |-> InFlight(o)]' =
              [o \in Outputs |-> ([x \in Outputs |-> InFlight(x)][o] \ D) \cup {e}]
      BY <2>6
    <2>8. [o \in Outputs |-> [x \in Events |-> Times(o, x)]]' =
              [o \in Outputs |-> [x \in Events |-> Times(o, x)]]
      BY <1>2 DEF Times
    <2>9. ~Abs!Known(e)
      BY <1>1, KnownIs
    <2>10. Abs!Admit(e, D)
      BY <1>2, <1>3, <2>3, <2>4, <2>7, <2>8, <2>9 DEF Abs!Admit
    <2>11. D = {} \/ \E d \in Events : D = {d}
      <3>1. CASE r.dropped = 1
        <4>1. queue # <<>> /\ queue \in Seq(Events)
          BY <1>1, <1>5, <3>1, PushCases DEF TypeOK
        <4>2. QED
          BY <1>5, <3>1, <4>1, EventsInTail
      <3>2. QED
        BY <3>1
    <2>12. QED
      BY <1>1, <2>10, <2>11 DEF Abs!Next
  <1>6. QED
    BY <1>4, <1>5

LEMMA HandOverDelivers ==
    ASSUME DeliveryInv, DeliveryInv', NEW w \in Workers, HandOver(w)
    PROVE  Abs!Next
  <1> DEFINE S == EventsIn(batch[w])
  <1>1. KeepInv /\ KeepInv' /\ PhaseInv /\ TypeOK
    BY DEF DeliveryInv, KeepInv, PhaseInv, Typed
  <1>2. PICK k \in Outputs : k = sent[w]
    BY <1>1 DEF TypeOK
  <1>3. /\ batch[w] \in Seq(Events) /\ out \in [Outputs -> Seq(Events)]
        /\ UNCHANGED <<evicted, control, racing>> /\ Admitted' = Admitted
        /\ out'[k] = out[k] \o batch[w]
        /\ \A o \in Outputs : o # k => out'[o] = out[o]
    BY <1>1, <1>2 DEF HandOver, WorkerUnchanged, TypeOK, controlVars, Admitted, At
  <1>4. S \subseteq InFlight(k) /\ S \subseteq Events
    <2>1. k \in Nat
      BY ConstantFacts
    <2>2. sent[w] <= k
      BY <1>2, <2>1
    <2>3. ByIndex(batch[w]) /\ \A i \in 1 .. Len(batch[w]) : batch[w][i] \in Events
      BY <1>3, SeqFacts
    <2>4. S \subseteq Events
      BY <2>3 DEF ByIndex
    <2>5. QED
      BY <2>2, <2>4, InFlightIs
  <1>5. Given(k)' = Given(k) \cup S /\ \A o \in Outputs : o # k => Given(o)' = Given(o)
    <2>1. EventsIn(out[k] \o batch[w]) = EventsIn(out[k]) \cup S
      BY <1>3, EventsInConcat
    <2>2. \A o \in Outputs : Given(o)' = EventsIn(out'[o])
      BY DEF Given, EventsIn
    <2>3. QED
      BY <1>3, <2>1, <2>2 DEF Given
  <1>6. \A o \in Outputs : InFlight(o)' = IF o = k THEN InFlight(o) \ S ELSE InFlight(o)
    <2>1. ASSUME NEW o \in Outputs
          PROVE  InFlight(o)' = IF o = k THEN InFlight(o) \ S ELSE InFlight(o)
      <3>1. /\ InFlight(o) = Admitted \ (evicted \cup Given(o))
            /\ InFlight(o)' = Admitted' \ (evicted' \cup Given(o)')
        BY <1>1, PendingIs, PendingIsNext
      <3>2. QED
        BY <1>3, <1>5, <3>1
    <2>2. QED
      BY <2>1
  <1>7. \A o \in Outputs, e \in Events :
            Times(o, e)' = IF o = k /\ e \in S THEN Times(o, e) + 1 ELSE Times(o, e)
    <2>1. ASSUME NEW o \in Outputs, NEW e \in Events
          PROVE  Times(o, e)' = IF o = k /\ e \in S THEN Times(o, e) + 1 ELSE Times(o, e)
      <3>1. /\ Times(o, e) = IF e \in Given(o) THEN 1 ELSE 0
            /\ Times(o, e)' = IF e \in Given(o)' THEN 1 ELSE 0
        BY <1>1, TimesIs, TimesAreNext
      <3>2. e \in S => e \notin Given(k)
        BY <1>1, <1>4, PendingIs
      <3>3. CASE o = k
        BY <1>5, <3>1, <3>2, <3>3
      <3>4. CASE o # k
        BY <1>5, <3>1, <3>4
      <3>5. QED
        BY <3>3, <3>4
    <2>2. QED
      BY <2>1
  <1>8. \A o \in Outputs, e \in Events : Times(o, e) \in Nat
    BY <1>1, TimesIs
  <1> DEFINE pending == [o \in Outputs |-> InFlight(o)]
             delivered == [o \in Outputs |-> [e \in Events |-> Times(o, e)]]
  <1>9. pending' = [pending EXCEPT ![k] = @ \ S]
    BY <1>6
  <1>10. delivered' = [delivered EXCEPT ![k] =
             [e \in Events |-> @[e] + (IF e \in S THEN 1 ELSE 0)]]
    <2>1. ASSUME NEW o \in Outputs
          PROVE  [e \in Events |-> Times(o, e)'] =
                     IF o = k THEN [e \in Events |-> Times(o, e) + (IF e \in S THEN 1 ELSE 0)]
                     ELSE [e \in Events |-> Times(o, e)]
      <3>1. CASE o = k
        <4>1. \A e \in Events : Times(o, e)' = Times(o, e) + (IF e \in S THEN 1 ELSE 0)
          BY <1>7, <1>8, <3>1
        <4>2. QED
          BY <3>1, <4>1
      <3>2. CASE o # k
        BY <1>7, <3>2
      <3>3. QED
        BY <3>1, <3>2
    <2>2. QED
      BY <2>1
  <1>11. Phase # "off" /\ Phase' = Phase
    <2>1. worker[w] \notin {"unborn", "done"} /\ control \in ControlSteps
      BY <1>1 DEF HandOver, TypeOK
    <2>2. control \in {"started", "stopping", "joining"}
      BY <1>1, <2>1 DEF PhaseInv, Phases, ControlSteps
    <2>3. QED
      BY <1>3, <2>2 DEF Phase
  <1>12. Abs!Deliver(k, S)
    BY <1>3, <1>9, <1>10, <1>11 DEF Abs!Deliver
  <1>13. S \in SUBSET pending[k]
    BY <1>4
  <1>14. QED
    BY <1>12, <1>13 DEF Abs!Next

\* Stop begins: what has still to be pushed was not admitted.
LEMMA RacingIsNew ==
    ASSUME Typed, NEW p \in Pushing
    PROVE  producer[p].event \in Events /\ producer[p].event \notin Admitted
  <1>1. /\ p \in Producers /\ ~At(p, "idle") /\ ~Holds(p)
        /\ producer[p].event \in Events /\ fate[producer[p].event] = "pending"
    BY DEF Pushing, Holds, At, Typed, Busy
  <1>2. \A q \in Producers : Holds(q) => producer[q].event # producer[p].event
    BY <1>1 DEF Holds, At, Typed, Alone
  <1>3. QED
    BY <1>1, <1>2, AdmittedIs

LEMMA ControlDelivers ==
    ASSUME DeliveryInv, DeliveryInv',
           Start \/ Stop \/ \E b \in RuntimeBatchSizes : UpdateRuntimeConfig(b)
    PROVE  [Abs!Next]_(Abs!vars)
  <1>1. KeepInv /\ KeepInv' /\ Typed /\ PhaseInv /\ StopInv
    BY DEF DeliveryInv, KeepInv, PhaseInv
  <1>2. UNCHANGED <<evicted, out>> /\ Admitted' = Admitted
    BY DEF Start, Stop, StopBegins, CloseQueue, JoinWorkers, StopSinks, ControlUnchanged,
           UpdateRuntimeConfig, queueVars, workerVars, Admitted, At
  <1> DEFINE pending == [o \in Outputs |-> InFlight(o)]
             delivered == [o \in Outputs |-> [e \in Events |-> Times(o, e)]]
  <1>3. pending' = pending /\ delivered' = delivered
    BY <1>1, <1>2, SameView
  <1>4. CASE Start
    <2>1. Phase = "off" /\ Phase' = "running" /\ racing' = racing
      BY <1>4 DEF Start, Control, Phase
    <2>2. Abs!Start
      BY <1>2, <1>3, <2>1 DEF Abs!Start, Abs!eventVars
    <2>3. QED
      BY <2>2 DEF Abs!Next
  <1>5. CASE StopBegins
    <2>1. Phase = "running" /\ Phase' = "stopping"
      BY <1>5 DEF StopBegins, Control, Phase
    <2>2. racing' = {producer[p].event : p \in Pushing}
      BY <1>5 DEF StopBegins, RacingNow
    <2>3. racing' \in SUBSET Events /\ \A e \in racing' : ~Abs!Known(e)
      BY <1>1, <2>2, RacingIsNew, KnownIs
    <2>4. Abs!BeginStop(racing')
      BY <1>2, <1>3, <2>1, <2>3 DEF Abs!BeginStop, Abs!eventVars
    <2>5. QED
      BY <2>3, <2>4 DEF Abs!Next
  <1>6. CASE JoinWorkers
    <2>1. Phase = "stopping" /\ Phase' = "off" /\ racing' = racing
      BY <1>6 DEF JoinWorkers, Control, Phase
    <2>2. /\ SomeDrained /\ EventsIn(queue) \subseteq racing
          /\ \A w \in Workers : batch[w] = <<>>
      BY <1>1, <1>6, PipelineAssumption
         DEF JoinWorkers, Control, SomeDrained, StopInv, RacersKnown, Stopping, PhaseInv, Hands
    <2>3. \A o \in Outputs : InFlight(o) \subseteq racing
      BY <2>2, EventsInEmpty, InFlightIs
    <2>4. Abs!EndStop
      BY <1>2, <1>3, <2>1, <2>3 DEF Abs!EndStop, Abs!eventVars
    <2>5. QED
      BY <2>4 DEF Abs!Next
  <1>7. CASE CloseQueue \/ StopSinks \/ \E b \in RuntimeBatchSizes : UpdateRuntimeConfig(b)
    <2>1. Phase' = Phase /\ racing' = racing
      BY <1>7 DEF CloseQueue, StopSinks, UpdateRuntimeConfig, Control, controlVars, Phase
    <2>2. QED
      BY <1>2, <1>3, <2>1 DEF Abs!vars
  <1>8. QED
    BY <1>4, <1>5, <1>6, <1>7 DEF Stop

LEMMA OthersDeliverNothing ==
    ASSUME DeliveryInv, DeliveryInv',
           \/ \E p \in Producers, e \in Events : EnqueueRefused(p, e) \/ EnqueueBegins(p, e)
           \/ \E p \in Producers : Enqueue(p) /\ ~TryPush(p)
           \/ \E w \in Workers : Work(w) /\ ~HandOver(w)
    PROVE  UNCHANGED Abs!vars
  <1>1. KeepInv /\ KeepInv' /\ TypeOK /\ Typed
    BY DEF DeliveryInv, KeepInv, PhaseInv, Typed
  <1>2. UNCHANGED <<control, racing>>
    BY <1>1, EnqueueFrame, WorkFrame DEF controlVars
  <1>3. ASSUME NEW w \in Workers, Work(w), ~HandOver(w)
        PROVE  UNCHANGED <<evicted, out>> /\ Admitted' = Admitted
    BY <1>3 DEF Work, Loop, LeaveLoop, PopFirst, PopNothing, Fill, Filled, Drain, Drained,
                WorkerUnchanged, Admitted, At
  <1>4. UNCHANGED <<evicted, out>> /\ Admitted' = Admitted
    BY <1>1, <1>3, EnqueueBeginsAdmits, EnqueueAdmits
  <1>5. Phase' = Phase
    BY <1>2 DEF Phase
  <1>6. QED
    BY <1>1, <1>2, <1>4, <1>5, SameView DEF Abs!vars

-----------------------------------------------------------------------------
LEMMA StepDelivers == DeliveryInv /\ DeliveryInv' /\ [Next]_vars => [Abs!Next]_(Abs!vars)
  <1> SUFFICES ASSUME DeliveryInv, DeliveryInv', [Next]_vars
               PROVE  [Abs!Next]_(Abs!vars)
    OBVIOUS
  <1>1. CASE UNCHANGED vars
    <2>1. UNCHANGED <<control, racing, evicted, out>> /\ Admitted' = Admitted
      BY <1>1 DEF vars, controlVars, workerVars, Admitted, At
    <2>2. Phase' = Phase
      BY <2>1 DEF Phase
    <2>3. QED
      BY <2>1, <2>2, SameView DEF DeliveryInv, Abs!vars
  <1>2. CASE Next
    BY <1>2, PushDelivers, HandOverDelivers, ControlDelivers, OthersDeliverNothing DEF Next
  <1>3. QED
    BY <1>1, <1>2

LEMMA InitDelivers == Init => Abs!Init
  <1> SUFFICES ASSUME Init PROVE Abs!Init
    OBVIOUS
  <1>1. KeepInv
    BY InitConserved
  <1>2. /\ Phase = "off" /\ evicted = {} /\ racing = {}
        /\ \A o \in Outputs : out[o] = <<>>
    BY DEF Init, Phase
  <1>3. Admitted = {}
    BY DEF Init, Admitted, At, Idle, Calling
  <1>4. \A o \in Outputs : InFlight(o) = {} /\ Given(o) = {}
    BY <1>1, <1>2, <1>3, PendingIs, EventsInEmpty DEF Given
  <1>5. \A o \in Outputs, e \in Events : Times(o, e) = 0
    BY <1>1, <1>4, TimesIs
  <1>6. QED
    BY <1>2, <1>4, <1>5 DEF Abs!Init

(* The pipeline keeps what Delivery promises: however producers, workers,  *)
(* evictions and stop interleave, an admitted event is handed to each      *)
(* output once or evicted before any got it, nothing is handed over while  *)
(* the pipeline is off, and stop leaves nothing but events that raced it.  *)
THEOREM PipelineDelivers == SafeSpec => ImplementsDelivery
  <1>1. SafeSpec => []DeliveryInv
    BY DeliveryInvHolds
  <1>2. QED
    BY <1>1, InitDelivers, StepDelivers, PTL DEF SafeSpec, ImplementsDelivery, Abs!Spec

=============================================================================
