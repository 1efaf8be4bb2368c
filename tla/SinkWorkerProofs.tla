-------------------------- MODULE SinkWorkerProofs --------------------------
(***************************************************************************)
(* SinkWorker for any number of submitters and payloads, any policy, any   *)
(* sizes and backoff: it is well typed, every admitted payload is in one   *)
(* place, the statistics count them, payloads reach the other end in the   *)
(* order of their pushes, and a stop that returned has settled them all.   *)
(***************************************************************************)
EXTENDS SinkWorker, SequenceTheorems, FiniteSetTheorems, TLAPS

-----------------------------------------------------------------------------
(* The payloads in a sequence.                                             *)

\* EventsIn and IsInjective, read index by index.
ByIndex(s) ==
    /\ \A e : e \in EventsIn(s) <=> \E i \in 1 .. Len(s) : s[i] = e
    /\ IsInjective(s) <=> \A i, j \in 1 .. Len(s) : s[i] = s[j] => i = j

LEMMA SeqFacts ==
    ASSUME NEW s \in Seq(Payloads)
    PROVE  /\ Len(s) \in Nat
           /\ \A i \in 1 .. Len(s) : s[i] \in Payloads
           /\ ByIndex(s)
  <1>1. Len(s) \in Nat /\ DOMAIN s = 1 .. Len(s) /\ \A i \in 1 .. Len(s) : s[i] \in Payloads
    OBVIOUS
  <1>2. \A e : e \in EventsIn(s) <=> \E i \in 1 .. Len(s) : s[i] = e
    BY <1>1 DEF EventsIn
  <1>3. IsInjective(s) <=> \A i, j \in 1 .. Len(s) : s[i] = s[j] => i = j
    BY <1>1, Zenon DEF IsInjective
  <1>4. QED
    BY <1>1, <1>2, <1>3 DEF ByIndex

LEMMA EventsInEmpty == EventsIn(<<>>) = {} /\ <<>> \in Seq(Payloads) /\ IsInjective(<<>>)
  <1>1. <<>> \in Seq(Payloads) /\ Len(<<>>) = 0
    BY EmptySeq
  <1>2. EventsIn(<<>>) = {}
    BY DEF EventsIn
  <1>3. IsInjective(<<>>)
    BY DEF IsInjective
  <1>4. QED
    BY <1>1, <1>2, <1>3

LEMMA EventsInAppend ==
    ASSUME NEW s \in Seq(Payloads), NEW e \in Payloads
    PROVE  /\ Append(s, e) \in Seq(Payloads)
           /\ Len(Append(s, e)) = Len(s) + 1
           /\ EventsIn(Append(s, e)) = EventsIn(s) \cup {e}
           /\ IsInjective(s) /\ e \notin EventsIn(s) => IsInjective(Append(s, e))
  <1>1. /\ Append(s, e) \in Seq(Payloads) /\ Len(Append(s, e)) = Len(s) + 1
        /\ Append(s, e)[Len(s) + 1] = e
        /\ \A i \in 1 .. Len(s) : Append(s, e)[i] = s[i]
    BY AppendProperties
  <1>2. \A i \in 1 .. Len(s) + 1 : i \in 1 .. Len(s) \/ i = Len(s) + 1
    BY SeqFacts
  <1>i. ByIndex(s) /\ ByIndex(Append(s, e))
    BY <1>1, SeqFacts
  <1>3. EventsIn(Append(s, e)) = EventsIn(s) \cup {e}
    BY <1>1, <1>2, <1>i, SeqFacts DEF ByIndex
  <1>4. IsInjective(s) /\ e \notin EventsIn(s) => IsInjective(Append(s, e))
    BY <1>1, <1>2, <1>i, SeqFacts DEF ByIndex
  <1>5. QED
    BY <1>1, <1>3, <1>4

LEMMA EventsInTail ==
    ASSUME NEW s \in Seq(Payloads), s # <<>>
    PROVE  /\ Head(s) \in Payloads /\ Tail(s) \in Seq(Payloads)
           /\ Len(s) \in Nat /\ Len(s) >= 1 /\ Len(Tail(s)) = Len(s) - 1
           /\ EventsIn(s) = {Head(s)} \cup EventsIn(Tail(s))
           /\ IsInjective(s) => IsInjective(Tail(s)) /\ Head(s) \notin EventsIn(Tail(s))
  <1>1. Len(s) \in Nat /\ Len(s) >= 1 /\ Head(s) = s[1] /\ Head(s) \in Payloads
    OBVIOUS
  <1>2. /\ Tail(s) \in Seq(Payloads) /\ Len(Tail(s)) = Len(s) - 1
        /\ \A i \in 1 .. Len(s) - 1 : Tail(s)[i] = s[i + 1]
    BY <1>1
  <1>3. \A i \in 1 .. Len(s) : i = 1 \/ (i - 1 \in 1 .. Len(s) - 1 /\ s[i] = Tail(s)[i - 1])
    BY <1>1, <1>2
  <1>i. ByIndex(s) /\ ByIndex(Tail(s))
    BY <1>2, SeqFacts
  <1>4. EventsIn(s) = {Head(s)} \cup EventsIn(Tail(s))
    <2>1. \A i \in 1 .. Len(s) : s[i] = Head(s) \/ s[i] \in EventsIn(Tail(s))
      BY <1>1, <1>2, <1>3, <1>i DEF ByIndex
    <2>2. \A i \in 1 .. Len(s) - 1 : Tail(s)[i] \in EventsIn(s)
      <3>1. \A i \in 1 .. Len(s) - 1 : i + 1 \in 1 .. Len(s)
        BY <1>1
      <3>2. QED
        BY <1>2, <1>i, <3>1 DEF ByIndex
    <2>3. Head(s) \in EventsIn(s)
      BY <1>1, <1>i DEF ByIndex
    <2>4. QED
      BY <1>2, <1>i, <2>1, <2>2, <2>3 DEF ByIndex
  <1>5. IsInjective(s) => IsInjective(Tail(s)) /\ Head(s) \notin EventsIn(Tail(s))
    BY <1>1, <1>2, <1>i DEF ByIndex
  <1>6. QED
    BY <1>1, <1>2, <1>4, <1>5

-----------------------------------------------------------------------------
(* The inductive invariant.                                                *)

At(s, at) == submitter[s].step = at

\* A submitter inside submit holds a pending payload...
Busy ==
    \A s \in Submitters :
        ~At(s, "idle") =>
            submitter[s].payload \in Payloads /\ fate[submitter[s].payload] = "pending"

\* ... of its own.
Alone ==
    \A s, t \in Submitters :
        ~At(s, "idle") /\ ~At(t, "idle") /\ submitter[s].payload = submitter[t].payload => s = t

\* The thread writes a payload, has another attempt when it backs off, and
\* ends only with a closed and empty queue; stop returns after it.
Holding == step \in {"write", "backoff", "count_failure"}

Phases ==
    /\ Holding => payload \in Payloads /\ attempt >= 1
    /\ step = "backoff" => attempt < Attempts
    /\ step \in {"flush", "done"} => closed /\ queue = <<>>
    /\ step = "done" => flushed
    /\ control = "created" => step = "unborn"
    /\ control = "stopped" => step = "done"

Typed == SinkTypeOK /\ Busy /\ Alone /\ Phases

\* EachInOnePlace, place by place.
NothingLost == Admitted = EventsIn(queue) \cup InHand \cup evicted \cup written \cup failed

Apart ==
    /\ IsInjective(queue)
    /\ EventsIn(queue) \cap (InHand \cup evicted \cup written \cup failed) = {}
    /\ InHand \cap (evicted \cup written \cup failed) = {}
    /\ evicted \cap (written \cup failed) = {}
    /\ written \cap failed = {}

Placed == NothingLost /\ Apart

\* The copies of a payload in what the other end got.
CopiesIn(s, p) == {i \in DOMAIN s : s[i] = p}
Copies(p) == Cardinality(CopiesIn(received, p))

\* What was received has left the queue for good, and the payload in hand was
\* received at most once per attempt...
Sent ==
    /\ EventsIn(received) \subseteq InHand \cup written \cup failed
    /\ \A p \in Payloads : Copies(p) <= Attempts
    /\ step = "write" => Copies(payload) < attempt
    /\ Holding => Copies(payload) <= attempt

\* The payload in hand was pushed before those in the queue, which are in the
\* order of their pushes, and what was received before them or is the same one.
Ranked ==
    /\ \A i, j \in DOMAIN queue : i < j => rank[queue[i]] < rank[queue[j]]
    /\ \A i, j \in DOMAIN received : i < j => rank[received[i]] <= rank[received[j]]
    /\ \A i \in DOMAIN received, j \in DOMAIN queue : rank[received[i]] < rank[queue[j]]
    /\ Holding => /\ \A j \in DOMAIN queue : rank[payload] < rank[queue[j]]
                  /\ \A i \in DOMAIN received : rank[received[i]] <= rank[payload]

-----------------------------------------------------------------------------
(* Types and phases.                                                       *)

SubmitterType ==
    [step : SubmitterSteps, payload : Payloads \cup {NoPayload}, dropped_now : {0, 1}]

LEMMA ConstantFacts ==
    /\ MaxSize \in Nat /\ MaxSize >= 1
    /\ Attempts \in Nat /\ Attempts >= 1
    /\ InitialBackoff \in Nat /\ MaxBackoff \in Nat
    /\ IsFiniteSet(Submitters) /\ IsFiniteSet(Payloads) /\ NoPayload \notin Payloads
  BY SinkAssumption DEF MaxSize, MaxSizeOf, Attempts

\* What a push leaves behind: the payload was refused by a closed queue,
\* rejected by a full one, added, or added in the place of the oldest.
LEMMA PushCases ==
    ASSUME SinkTypeOK, NEW p \in Payloads, NEW r,
           r = PushResult(queue, closed, overflow_policy, MaxSize, p)
    PROVE  /\ r.ok \in BOOLEAN /\ r.dropped \in {0, 1}
           /\ closed => ~r.ok /\ r.dropped = 0
           /\ \/ /\ ~r.ok
                 /\ r.items = queue
              \/ /\ r.ok /\ r.dropped = 0
                 /\ r.items = Append(queue, p)
                 /\ Len(queue) < MaxSize
              \/ /\ r.ok /\ r.dropped = 1
                 /\ queue # <<>>
                 /\ r.items = Append(Tail(queue), p)
  <1>1. queue \in Seq(Payloads) /\ Len(queue) \in Nat /\ closed \in BOOLEAN
    BY DEF SinkTypeOK
  <1>2. Len(queue) >= MaxSize => queue # <<>>
    BY <1>1, ConstantFacts
  <1> DEFINE full == Len(queue) >= MaxSize
             taken == ~closed /\ (~full \/ overflow_policy = "DropOldest")
  <1>3. /\ r.items = IF taken THEN Append(IF full THEN Tail(queue) ELSE queue, p) ELSE queue
        /\ r.ok = taken
        /\ r.dropped = IF ~closed /\ full THEN 1 ELSE 0
    BY DEF PushResult
  <1>4. r.ok \in BOOLEAN /\ r.dropped \in {0, 1} /\ (closed => ~r.ok /\ r.dropped = 0)
    BY <1>3
  <1>5. CASE ~taken
    BY <1>3, <1>4, <1>5
  <1>6. CASE taken /\ full
    BY <1>2, <1>3, <1>4, <1>6
  <1>7. CASE taken /\ ~full
    <2>1. r.items = Append(queue, p) /\ r.dropped = 0
      BY <1>3, <1>7
    <2>2. r.ok = TRUE
      BY <1>3, <1>7
    <2>3. Len(queue) < MaxSize
      BY <1>1, <1>7, ConstantFacts
    <2>4. QED
      BY <1>4, <2>1, <2>2, <2>3
  <1>8. QED
    BY <1>5, <1>6, <1>7

\* A submitter goes on inside submit.
LEMMA StepTyped ==
    ASSUME Typed, NEW s \in Submitters, NEW at \in SubmitterSteps, NEW n \in {0, 1},
           ~At(s, "idle"),
           submitter' = [submitter EXCEPT ![s] = Submission(at, submitter[s].payload, n)],
           UNCHANGED fate
    PROVE  submitter' \in [Submitters -> SubmitterType] /\ Busy' /\ Alone'
  <1>1. submitter \in [Submitters -> SubmitterType]
    BY DEF Typed, SinkTypeOK, SubmitterType
  <1>2. submitter[s].payload \in Payloads
    BY DEF Typed, Busy
  <1>3. /\ submitter' \in [Submitters -> SubmitterType]
        /\ \A t \in Submitters : submitter'[t].payload = submitter[t].payload
        /\ \A t \in Submitters : t # s => submitter'[t] = submitter[t]
    BY <1>1, <1>2 DEF Submission, SubmitterType
  <1>4. \A t \in Submitters : ~(submitter'[t].step = "idle") => ~(submitter[t].step = "idle")
    BY <1>3 DEF At
  <1>5. QED
    BY <1>3, <1>4 DEF Typed, Busy, Alone, At

LEMMA GotoIsStep ==
    ASSUME Typed, NEW s \in Submitters, NEW from, NEW to, Goto(s, from, to)
    PROVE  /\ submitter[s].dropped_now \in {0, 1}
           /\ submitter' =
                  [submitter EXCEPT ![s] =
                       Submission(to, submitter[s].payload, submitter[s].dropped_now)]
  <1>1. submitter \in [Submitters -> SubmitterType]
    BY DEF Typed, SinkTypeOK, SubmitterType
  <1>2. submitter[s] \in SubmitterType
    BY <1>1
  <1>3. [submitter[s] EXCEPT !.step = to]
            = Submission(to, submitter[s].payload, submitter[s].dropped_now)
    BY <1>2 DEF SubmitterType, Submission
  <1>4. QED
    BY <1>1, <1>2, <1>3 DEF Goto, SubmitterType

\* submit returns.
LEMMA ReturnTyped ==
    ASSUME Typed, NEW s \in Submitters, NEW f \in Fates, ~At(s, "idle"),
           submitter' = [submitter EXCEPT ![s] = Idle],
           fate' = [fate EXCEPT ![submitter[s].payload] = f]
    PROVE  /\ submitter' \in [Submitters -> SubmitterType] /\ fate' \in [Payloads -> Fates]
           /\ Busy' /\ Alone'
  <1>1. submitter \in [Submitters -> SubmitterType] /\ fate \in [Payloads -> Fates]
    BY DEF Typed, SinkTypeOK, SubmitterType
  <1>2. /\ submitter' \in [Submitters -> SubmitterType] /\ fate' \in [Payloads -> Fates]
        /\ submitter'[s].step = "idle"
        /\ \A t \in Submitters : t # s => submitter'[t] = submitter[t]
        /\ \A x \in Payloads : x # submitter[s].payload => fate'[x] = fate[x]
    BY <1>1 DEF Idle, Submission, SubmitterType, SubmitterSteps
  <1>3. \A t \in Submitters : t # s /\ ~At(t, "idle") => submitter[t].payload # submitter[s].payload
    BY DEF Typed, Alone
  <1>4. Busy'
    BY <1>2, <1>3 DEF Typed, Busy, At
  <1>5. Alone'
    BY <1>2 DEF Typed, Alone, At
  <1>6. QED
    BY <1>2, <1>4, <1>5

LEMMA InitTyped == Init => Typed
  <1> SUFFICES ASSUME Init PROVE Typed
    OBVIOUS
  <1>1. queue \in Seq(Payloads) /\ Len(queue) <= MaxSize /\ received \in Seq(Payloads)
    BY EventsInEmpty, ConstantFacts DEF Init
  <1>2. submitter \in [Submitters -> SubmitterType]
    BY DEF Init, Idle, Submission, SubmitterType, SubmitterSteps
  <1>3. step \in ThreadSteps /\ control \in ControlSteps /\ fate \in [Payloads -> Fates]
    BY DEF Init, ThreadSteps, ControlSteps, Fates
  <1>4. attempt \in 0 .. Attempts /\ delay \in 0 .. Larger(InitialBackoff, MaxBackoff)
    BY ConstantFacts DEF Init, Larger
  <1>5. pushes \in Nat /\ rank \in [Payloads -> 0 .. pushes]
    BY DEF Init
  <1>6. SinkTypeOK
    BY <1>1, <1>2, <1>3, <1>4, <1>5 DEF Init, SinkTypeOK, SubmitterType
  <1>7. Busy /\ Alone
    BY DEF Init, Busy, Alone, At, Idle, Submission
  <1>8. Phases
    BY DEF Init, Phases, Holding
  <1>9. QED
    BY <1>6, <1>7, <1>8 DEF Typed

\* A payload is submitted.
LEMMA SubmitBeginsTyped ==
    ASSUME Typed, NEW s \in Submitters, NEW p \in Payloads, SubmitBegins(s, p)
    PROVE  Typed'
  <1>1. submitter \in [Submitters -> SubmitterType] /\ fate \in [Payloads -> Fates]
    BY DEF Typed, SinkTypeOK, SubmitterType
  <1>2. /\ submitter' \in [Submitters -> SubmitterType] /\ fate' \in [Payloads -> Fates]
        /\ submitter'[s].payload = p /\ fate'[p] = "pending" /\ fate[p] = "new"
        /\ \A t \in Submitters : t # s => submitter'[t] = submitter[t]
        /\ \A x \in Payloads : x # p => fate'[x] = fate[x]
    BY <1>1 DEF SubmitBegins, Submission, SubmitterType, SubmitterSteps, Fates
  <1>3. \A t \in Submitters : ~At(t, "idle") => submitter[t].payload # p
    BY <1>2 DEF Typed, Busy
  <1>4. Busy' /\ Alone'
    BY <1>2, <1>3 DEF Typed, Busy, Alone, At
  <1>5. UNCHANGED <<SubmitUnchanged, queue, enqueued, dropped, history>>
    BY DEF SubmitBegins
  <1>6. SinkTypeOK'
    BY <1>2, <1>5
    DEF Typed, SinkTypeOK, SubmitterType, SubmitUnchanged, retryVars, outsideVars, history, order
  <1>7. Phases'
    BY <1>5 DEF Typed, Phases, Holding, SubmitUnchanged, retryVars, outsideVars
  <1>8. QED
    BY <1>4, <1>6, <1>7 DEF Typed

LEMMA PushTyped ==
    ASSUME Typed, NEW s \in Submitters, Push(s)
    PROVE  Typed'
  <1> DEFINE p == submitter[s].payload
             r == PushResult(queue, closed, overflow_policy, MaxSize, p)
             at == IF r.ok THEN "count_accepted" ELSE "count_rejected"
  <1>1. ~At(s, "idle") /\ p \in Payloads /\ at \in SubmitterSteps
    BY DEF Push, At, Typed, Busy, SubmitterSteps
  <1>2. /\ queue' = r.items
        /\ evicted' = IF r.ok /\ r.dropped = 1 THEN evicted \cup {Head(queue)} ELSE evicted
        /\ submitter' = [submitter EXCEPT ![s] = Submission(at, p, r.dropped)]
        /\ pushes' = IF r.ok THEN pushes + 1 ELSE pushes
        /\ rank' = IF r.ok THEN [rank EXCEPT ![p] = pushes'] ELSE rank
        /\ UNCHANGED <<SubmitUnchanged, enqueued, dropped, written, failed, fate>>
    BY DEF Push
  <1>3. /\ queue \in Seq(Payloads) /\ Len(queue) \in Nat /\ Len(queue) <= MaxSize
        /\ pushes \in Nat /\ rank \in [Payloads -> 0 .. pushes]
    BY DEF Typed, SinkTypeOK
  <1>r. pushes' \in Nat /\ rank' \in [Payloads -> 0 .. pushes']
    BY <1>1, <1>2, <1>3
  <1>4. evicted \subseteq Payloads /\ SinkTypeOK
    BY DEF Typed, SinkTypeOK
  <1>5. r.dropped \in {0, 1} /\ (closed => ~r.ok)
    BY <1>1, <1>4, PushCases
  <1>6. /\ queue' \in Seq(Payloads) /\ Len(queue') <= MaxSize
        /\ evicted' \subseteq Payloads
        /\ closed => queue' = queue
    <2>1. CASE ~r.ok
      <3>1. queue' = queue /\ evicted' = evicted
        BY <1>1, <1>2, <1>4, <2>1, PushCases
      <3>2. QED
        BY <1>3, <1>4, <3>1
    <2>2. CASE r.ok /\ r.dropped = 0
      <3>1. queue' = Append(queue, p) /\ Len(queue) < MaxSize /\ evicted' = evicted
        BY <1>1, <1>2, <1>4, <2>2, PushCases
      <3>2. QED
        BY <1>1, <1>3, <1>4, <1>5, <2>2, <3>1, EventsInAppend, ConstantFacts
    <2>3. CASE r.ok /\ r.dropped = 1
      <3>1. queue' = Append(Tail(queue), p) /\ queue # <<>> /\ evicted' = evicted \cup {Head(queue)}
        BY <1>1, <1>2, <1>4, <2>3, PushCases
      <3>2. QED
        BY <1>1, <1>3, <1>4, <1>5, <2>3, <3>1, EventsInAppend, EventsInTail, ConstantFacts
    <2>4. QED
      BY <1>1, <1>4, <2>1, <2>2, <2>3, PushCases
  <1>7. submitter' \in [Submitters -> SubmitterType] /\ Busy' /\ Alone'
    BY <1>1, <1>2, <1>5, StepTyped
  <1>8. SinkTypeOK'
    BY <1>2, <1>6, <1>7, <1>r
    DEF Typed, SinkTypeOK, SubmitterType, SubmitUnchanged, retryVars, outsideVars
  <1>9. Phases'
    BY <1>2, <1>6 DEF Typed, Phases, Holding, SubmitUnchanged, retryVars, outsideVars
  <1>10. QED
    BY <1>7, <1>8, <1>9 DEF Typed

LEMMA CountTyped ==
    ASSUME Typed, NEW s \in Submitters, CountRejected(s) \/ CountAccepted(s) \/ CountEnqueued(s)
    PROVE  Typed'
  <1>1. submitter \in [Submitters -> SubmitterType] /\ enqueued \in Nat /\ dropped \in Nat
    BY DEF Typed, SinkTypeOK, SubmitterType
  <1>2. submitter[s].dropped_now \in {0, 1}
    BY <1>1 DEF SubmitterType
  <1>3. ~At(s, "idle")
    BY DEF CountRejected, CountAccepted, CountEnqueued, Return, Goto, At
  <1>4. /\ enqueued' \in Nat /\ dropped' \in Nat
        /\ UNCHANGED <<SubmitUnchanged, queue, history>>
    BY <1>1, <1>2 DEF CountRejected, CountAccepted, CountEnqueued
  <1>5. submitter' \in [Submitters -> SubmitterType] /\ fate' \in [Payloads -> Fates] /\ Busy' /\ Alone'
    <2>1. CASE CountRejected(s)
      <3> DEFINE f == IF submitter[s].dropped_now = 1 THEN "dropped" ELSE "refused"
      <3>1. f \in Fates
        BY DEF Fates
      <3>2. Return(s, "count_rejected", f)
        BY <2>1 DEF CountRejected
      <3>3. QED
        BY <1>3, <3>1, <3>2, ReturnTyped DEF Return
    <2>2. CASE CountAccepted(s)
      <3>1. "count_enqueued" \in SubmitterSteps
        BY DEF SubmitterSteps
      <3>2. Goto(s, "count_accepted", "count_enqueued") /\ UNCHANGED fate
        BY <2>2 DEF CountAccepted
      <3>3. fate \in [Payloads -> Fates]
        BY DEF Typed, SinkTypeOK
      <3>4. QED
        BY <1>2, <1>3, <3>1, <3>2, <3>3, GotoIsStep, StepTyped
    <2>3. CASE CountEnqueued(s)
      <3>1. "accepted" \in Fates
        BY DEF Fates
      <3>2. Return(s, "count_enqueued", "accepted")
        BY <2>3 DEF CountEnqueued
      <3>3. QED
        BY <1>3, <3>1, <3>2, ReturnTyped DEF Return
    <2>4. QED
      BY <2>1, <2>2, <2>3
  <1>6. SinkTypeOK'
    BY <1>4, <1>5
    DEF Typed, SinkTypeOK, SubmitterType, SubmitUnchanged, retryVars, outsideVars, history, order
  <1>7. Phases'
    BY <1>4 DEF Typed, Phases, Holding, SubmitUnchanged, retryVars, outsideVars
  <1>8. QED
    BY <1>5, <1>6, <1>7 DEF Typed

\* What the thread leaves alone.
LEMMA ThreadKeeps ==
    ASSUME Typed, Thread
    PROVE  /\ UNCHANGED <<overflow_policy, closed, running, submitter, enqueued, dropped,
                          control, fate, evicted, pushes, rank>>
           /\ Busy' /\ Alone'
  <1>1. UNCHANGED ThreadUnchanged
    BY DEF Thread, Pop, PopEnds, WriteSucceeds, WriteFails, Backoff, CountFailure, FinalFlush
  <1>2. QED
    BY <1>1 DEF ThreadUnchanged, order, Typed, Busy, Alone, At

LEMMA ThreadTyped ==
    ASSUME Typed, Thread
    PROVE  Typed'
  <1>0. /\ SinkTypeOK /\ Phases
        /\ queue \in Seq(Payloads) /\ Len(queue) <= MaxSize /\ received \in Seq(Payloads)
        /\ payload \in Payloads \cup {NoPayload}
        /\ attempt \in Nat /\ attempt <= Attempts
        /\ delay \in 0 .. Larger(InitialBackoff, MaxBackoff)
        /\ write_failures \in Nat /\ written \subseteq Payloads /\ failed \subseteq Payloads
        /\ closed \in BOOLEAN /\ flushed \in BOOLEAN
    BY ConstantFacts DEF Typed, SinkTypeOK
  <1> DEFINE Goal ==
               /\ queue' \in Seq(Payloads) /\ Len(queue') <= MaxSize
               /\ step' \in ThreadSteps
               /\ payload' \in Payloads \cup {NoPayload}
               /\ attempt' \in 0 .. Attempts /\ delay' \in 0 .. Larger(InitialBackoff, MaxBackoff)
               /\ received' \in Seq(Payloads) /\ flushed' \in BOOLEAN
               /\ write_failures' \in Nat
               /\ written' \subseteq Payloads /\ failed' \subseteq Payloads
               /\ Phases'
  <1>k. UNCHANGED <<overflow_policy, closed, running, submitter, enqueued, dropped, control,
                    fate, evicted, pushes, rank>> /\ Busy' /\ Alone'
    BY ThreadKeeps
  <1>c. (control = "created" => step = "unborn") /\ (control = "stopped" => step = "done")
    BY <1>0 DEF Phases
  <1>1. ASSUME Pop PROVE Goal
    <2>1. step = "pop" /\ step' = "write" /\ queue # <<>> /\ queue' = Tail(queue)
          /\ payload' = Head(queue) /\ attempt' = 1 /\ delay' = InitialBackoff
          /\ UNCHANGED <<received, flushed, write_failures, written, failed>>
      BY <1>1 DEF Pop, ThreadGoto, PopFront, outsideVars
    <2>2. queue' \in Seq(Payloads) /\ Len(queue') <= MaxSize /\ payload' \in Payloads
      BY <1>0, <2>1, EventsInTail, ConstantFacts
    <2>3. attempt' \in 0 .. Attempts /\ attempt' >= 1
      BY <2>1, ConstantFacts
    <2>4. delay' \in 0 .. Larger(InitialBackoff, MaxBackoff)
      BY <2>1, ConstantFacts DEF Larger
    <2>5. Phases'
      BY <1>c, <1>k, <2>1, <2>2, <2>3 DEF Phases, Holding
    <2>6. QED
      BY <1>0, <2>1, <2>2, <2>3, <2>4, <2>5 DEF ThreadSteps
  <1>2. ASSUME PopEnds PROVE Goal
    <2>1. step = "pop" /\ step' = "flush" /\ closed /\ queue = <<>>
          /\ UNCHANGED <<queue, payload, attempt, delay, received, flushed, write_failures, written, failed>>
      BY <1>2 DEF PopEnds, ThreadGoto, retryVars, outsideVars
    <2>2. Phases'
      BY <1>c, <1>k, <2>1 DEF Phases, Holding
    <2>3. QED
      BY <1>0, <2>1, <2>2 DEF ThreadSteps
  <1>3. ASSUME WriteSucceeds PROVE Goal
    <2>1. step = "write" /\ step' = "pop" /\ received' = Append(received, payload) /\ flushed' = FALSE
          /\ written' = written \cup {payload}
          /\ UNCHANGED <<queue, payload, attempt, delay, write_failures, failed>>
      BY <1>3 DEF WriteSucceeds, ThreadGoto, Deliver, retryVars
    <2>2. payload \in Payloads
      BY <1>0, <2>1 DEF Phases, Holding
    <2>3. received' \in Seq(Payloads)
      BY <1>0, <2>1, <2>2, EventsInAppend
    <2>4. Phases'
      BY <1>c, <1>k, <2>1 DEF Phases, Holding
    <2>5. /\ queue' \in Seq(Payloads) /\ Len(queue') <= MaxSize
          /\ payload' \in Payloads \cup {NoPayload}
          /\ attempt' \in 0 .. Attempts /\ delay' \in 0 .. Larger(InitialBackoff, MaxBackoff)
      BY <1>0, <2>1
    <2>6. step' \in ThreadSteps /\ flushed' \in BOOLEAN
      BY <2>1 DEF ThreadSteps
    <2>7. write_failures' \in Nat /\ written' \subseteq Payloads /\ failed' \subseteq Payloads
      BY <1>0, <2>1, <2>2
    <2>8. QED
      BY <2>3, <2>4, <2>5, <2>6, <2>7
  <1>4. ASSUME WriteFails PROVE Goal
    <2>1. step = "write" /\ step' = (IF attempt < Attempts THEN "backoff" ELSE "count_failure")
          /\ UNCHANGED <<queue, payload, attempt, delay, write_failures, written, failed>>
          /\ \/ received' = Append(received, payload) /\ flushed' = FALSE
             \/ UNCHANGED <<received, flushed>>
      BY <1>4 DEF WriteFails, ThreadGoto, FailedWrite, Deliver, retryVars, outsideVars
    <2>2. payload \in Payloads /\ attempt >= 1
      BY <1>0, <2>1 DEF Phases, Holding
    <2>3. received' \in Seq(Payloads) /\ flushed' \in BOOLEAN
      <3>1. Append(received, payload) \in Seq(Payloads)
        BY <1>0, <2>2, EventsInAppend
      <3>2. received \in Seq(Payloads) /\ flushed \in BOOLEAN
        BY <1>0
      <3>3. QED
        BY <2>1, <3>1, <3>2
    <2>4. Phases'
      BY <1>c, <1>k, <2>1, <2>2 DEF Phases, Holding
    <2>5. /\ queue' \in Seq(Payloads) /\ Len(queue') <= MaxSize
          /\ payload' \in Payloads \cup {NoPayload}
          /\ attempt' \in 0 .. Attempts /\ delay' \in 0 .. Larger(InitialBackoff, MaxBackoff)
      BY <1>0, <2>1
    <2>6. step' \in ThreadSteps
      BY <2>1 DEF ThreadSteps
    <2>7. write_failures' \in Nat /\ written' \subseteq Payloads /\ failed' \subseteq Payloads
      BY <1>0, <2>1
    <2>8. QED
      BY <2>3, <2>4, <2>5, <2>6, <2>7
  <1>5. ASSUME Backoff PROVE Goal
    <2>1. step = "backoff" /\ step' = "write" /\ attempt' = attempt + 1
          /\ delay' = Smaller(delay * 2, MaxBackoff)
          /\ UNCHANGED <<queue, payload, received, flushed, write_failures, written, failed>>
      BY <1>5 DEF Backoff, ThreadGoto, outsideVars
    <2>2. payload \in Payloads /\ attempt >= 1 /\ attempt < Attempts
      BY <1>0, <2>1 DEF Phases, Holding
    <2>3. attempt' \in 0 .. Attempts /\ attempt' >= 1
      BY <1>0, <2>1, <2>2, ConstantFacts
    <2>4. delay' \in 0 .. Larger(InitialBackoff, MaxBackoff)
      BY <1>0, <2>1, ConstantFacts DEF Larger, Smaller
    <2>5. Phases'
      BY <1>c, <1>k, <2>1, <2>2, <2>3 DEF Phases, Holding
    <2>6. QED
      BY <1>0, <2>1, <2>2, <2>3, <2>4, <2>5 DEF ThreadSteps
  <1>6. ASSUME CountFailure PROVE Goal
    <2>1. step = "count_failure" /\ step' = "pop" /\ write_failures' = write_failures + 1
          /\ failed' = failed \cup {payload}
          /\ UNCHANGED <<queue, payload, attempt, delay, received, flushed, written>>
      BY <1>6 DEF CountFailure, ThreadGoto, retryVars, outsideVars
    <2>2. payload \in Payloads
      BY <1>0, <2>1 DEF Phases, Holding
    <2>3. Phases'
      BY <1>c, <1>k, <2>1 DEF Phases, Holding
    <2>4. QED
      BY <1>0, <2>1, <2>2, <2>3 DEF ThreadSteps
  <1>7. ASSUME FinalFlush PROVE Goal
    <2>1. step = "flush" /\ step' = "done" /\ flushed' = TRUE
          /\ UNCHANGED <<queue, payload, attempt, delay, received, write_failures, written, failed>>
      BY <1>7 DEF FinalFlush, ThreadGoto, retryVars
    <2>2. Phases'
      BY <1>0, <1>k, <2>1 DEF Phases, Holding
    <2>3. QED
      BY <1>0, <2>1, <2>2 DEF ThreadSteps
  <1>8. Goal
    BY <1>1, <1>2, <1>3, <1>4, <1>5, <1>6, <1>7 DEF Thread
  <1>9. SinkTypeOK'
    BY <1>8, <1>k, <1>0 DEF SinkTypeOK
  <1>10. QED
    BY <1>8, <1>9, <1>k DEF Typed

LEMMA ControlTyped ==
    ASSUME Typed, Start \/ StopBegins \/ CloseQueue \/ Join \/ Flush
    PROVE  Typed'
  <1>1. UNCHANGED <<overflow_policy, queue, submitter, payload, attempt, delay, enqueued,
                    dropped, write_failures, fate, evicted, written, failed, pushes, rank,
                    received>>
    BY DEF Start, StopBegins, CloseQueue, Join, Flush, ControlUnchanged, retryVars, stats,
           history, order, outsideVars
  <1>2. /\ closed' \in BOOLEAN /\ running' \in BOOLEAN /\ flushed' \in BOOLEAN
        /\ step' \in ThreadSteps /\ control' \in ControlSteps
    BY DEF Start, StopBegins, CloseQueue, Join, Flush, Control, outsideVars, Typed, SinkTypeOK,
           ThreadSteps, ControlSteps
  <1>3. SinkTypeOK'
    BY <1>1, <1>2 DEF Typed, SinkTypeOK
  <1>4. Busy' /\ Alone'
    BY <1>1 DEF Typed, Busy, Alone, At
  <1>5. Phases'
    BY <1>1 DEF Start, StopBegins, CloseQueue, Join, Flush, Control, outsideVars, Typed,
                Phases, Holding
  <1>6. QED
    BY <1>3, <1>4, <1>5 DEF Typed

LEMMA StepKeepsTyped ==
    ASSUME Typed, [Next]_vars
    PROVE  Typed'
  <1>1. ASSUME NEW s \in Submitters, NEW p \in Payloads, SubmitBegins(s, p) PROVE Typed'
    BY <1>1, SubmitBeginsTyped
  <1>2. ASSUME NEW s \in Submitters, Submit(s) PROVE Typed'
    BY <1>2, PushTyped, CountTyped DEF Submit
  <1>3. CASE Thread
    BY <1>3, ThreadTyped
  <1>4. CASE Start \/ StopBegins \/ CloseQueue \/ Join \/ Flush
    BY <1>4, ControlTyped
  <1>5. CASE UNCHANGED vars
    BY <1>5 DEF vars, queueVars, retryVars, outsideVars, stats, history, order, Typed,
                SinkTypeOK, Busy, Alone, At, Phases, Holding
  <1>6. QED
    BY <1>1, <1>2, <1>3, <1>4, <1>5 DEF Next

\* The sink is well typed: the queue never holds more than its capacity, a
\* write is never attempted more than retry.max_attempts times, and no wait
\* is longer than both bounds of the backoff.
THEOREM TypeCorrect == SafeSpec => []SinkTypeOK
  <1>1. Typed /\ [Next]_vars => Typed'
    BY StepKeepsTyped
  <1>2. Typed => SinkTypeOK
    BY DEF Typed
  <1>3. QED
    BY InitTyped, <1>1, <1>2, PTL DEF SafeSpec

-----------------------------------------------------------------------------
(* Every admitted payload is in one place.                                 *)

Counting(s) == At(s, "count_accepted") \/ At(s, "count_enqueued")

LEMMA AdmittedIs ==
    \A p : p \in Admitted <=>
               \/ p \in Payloads /\ fate[p] = "accepted"
               \/ \E s \in Submitters : Counting(s) /\ submitter[s].payload = p
  BY DEF Admitted, Counting, At

LEMMA SubmitBeginsAdmits ==
    ASSUME Typed, NEW s \in Submitters, NEW p \in Payloads, SubmitBegins(s, p)
    PROVE  Admitted' = Admitted
  <1>1. submitter \in [Submitters -> SubmitterType] /\ fate \in [Payloads -> Fates]
    BY DEF Typed, SinkTypeOK, SubmitterType
  <1>2. /\ submitter'[s].step = "push" /\ submitter[s].step = "idle"
        /\ fate[p] = "new" /\ fate'[p] = "pending"
        /\ \A t \in Submitters : t # s => submitter'[t] = submitter[t]
        /\ \A x \in Payloads : x # p => fate'[x] = fate[x]
    BY <1>1 DEF SubmitBegins, Submission, Idle
  <1>3. \A x \in Payloads : fate'[x] = "accepted" <=> fate[x] = "accepted"
    BY <1>2
  <1>4. \A t \in Submitters : (Counting(t)' <=> Counting(t)) /\ (Counting(t) => submitter'[t] = submitter[t])
    BY <1>2 DEF Counting, At
  <1>5. QED
    BY <1>3, <1>4 DEF Admitted, Counting, At

\* A push admits its payload, which was not admitted before, when it says so.
LEMMA PushAdmits ==
    ASSUME Typed, NEW s \in Submitters, Push(s), NEW p, p = submitter[s].payload,
           NEW ok, ok = PushResult(queue, closed, overflow_policy, MaxSize, p).ok
    PROVE  /\ p \in Payloads /\ p \notin Admitted
           /\ Admitted' = IF ok THEN Admitted \cup {p} ELSE Admitted
  <1>1. submitter \in [Submitters -> SubmitterType]
    BY DEF Typed, SinkTypeOK, SubmitterType
  <1>2. At(s, "push") /\ ~At(s, "idle") /\ fate' = fate
    BY DEF Push, At
  <1>3. p \in Payloads /\ fate[p] = "pending"
    BY <1>2 DEF Typed, Busy
  <1>4. p \notin Admitted
    <2>1. \A t \in Submitters : Counting(t) => t # s /\ ~At(t, "idle")
      BY <1>2 DEF Counting, At
    <2>2. \A t \in Submitters : Counting(t) => submitter[t].payload # p
      BY <1>2, <2>1 DEF Typed, Alone
    <2>3. QED
      BY <1>3, <2>2, AdmittedIs
  <1>5. /\ submitter'[s].payload = p
        /\ submitter'[s].step = IF ok THEN "count_accepted" ELSE "count_rejected"
        /\ \A t \in Submitters : t # s => submitter'[t] = submitter[t]
    BY <1>1 DEF Push, Submission
  <1>6. /\ \A t \in Submitters : t # s => (Counting(t)' <=> Counting(t))
        /\ Counting(s)' <=> ok
        /\ ~Counting(s)
    BY <1>2, <1>5 DEF Counting, At
  <1>7. \A x : x \in Admitted' <=> \/ x \in Payloads /\ fate'[x] = "accepted"
                                   \/ \E t \in Submitters : Counting(t)' /\ submitter'[t].payload = x
    BY DEF Admitted, Counting, At
  <1>8. \A x : x \in Admitted' <=> x \in Admitted \/ (ok /\ x = p)
    <2>1. \A t \in Submitters : Counting(t) => Counting(t)' /\ submitter'[t].payload = submitter[t].payload
      BY <1>5, <1>6
    <2>2. \A t \in Submitters : Counting(t)' => \/ Counting(t) /\ submitter'[t].payload = submitter[t].payload
                                                \/ ok /\ submitter'[t].payload = p
      BY <1>5, <1>6
    <2>3. ok => \E t \in Submitters : Counting(t)' /\ submitter'[t].payload = p
      BY <1>5, <1>6
    <2>4. QED
      BY <1>2, <1>7, <2>1, <2>2, <2>3, AdmittedIs
  <1>9. QED
    BY <1>3, <1>4, <1>8

LEMMA CountAdmits ==
    ASSUME Typed, NEW s \in Submitters, CountRejected(s) \/ CountAccepted(s) \/ CountEnqueued(s)
    PROVE  Admitted' = Admitted
  <1>1. submitter \in [Submitters -> SubmitterType] /\ fate \in [Payloads -> Fates]
    BY DEF Typed, SinkTypeOK, SubmitterType
  <1>2. ~At(s, "idle")
    BY DEF CountRejected, CountAccepted, CountEnqueued, Return, Goto, At
  <1>3. submitter[s].payload \in Payloads /\ fate[submitter[s].payload] = "pending"
    BY <1>2 DEF Typed, Busy
  <1>7. \A x : x \in Admitted' <=> \/ x \in Payloads /\ fate'[x] = "accepted"
                                   \/ \E t \in Submitters : Counting(t)' /\ submitter'[t].payload = x
    BY DEF Admitted, Counting, At
  <1>8. \A t \in Submitters : t # s => submitter'[t] = submitter[t]
    BY <1>1 DEF CountRejected, CountAccepted, CountEnqueued, Return, Goto
  <1>9. \A t \in Submitters : t # s => (Counting(t)' <=> Counting(t)) /\ submitter'[t].payload = submitter[t].payload
    BY <1>8 DEF Counting, At
  <1>4. CASE CountRejected(s)
    <2>1. ~Counting(s) /\ ~Counting(s)'
      BY <1>1, <1>4 DEF CountRejected, Return, Counting, At, Idle, Submission
    <2>2. \A x \in Payloads : fate'[x] = "accepted" <=> fate[x] = "accepted"
      BY <1>1, <1>3, <1>4 DEF CountRejected, Return
    <2>3. QED
      BY <1>7, <1>9, <2>1, <2>2, AdmittedIs
  <1>5. CASE CountAccepted(s)
    <2>1. Counting(s) /\ Counting(s)' /\ submitter'[s].payload = submitter[s].payload
      BY <1>1, <1>5 DEF CountAccepted, Goto, Counting, At, SubmitterType
    <2>2. fate' = fate
      BY <1>5 DEF CountAccepted
    <2>3. QED
      BY <1>7, <1>9, <2>1, <2>2, AdmittedIs
  <1>6. CASE CountEnqueued(s)
    <2>1. Counting(s) /\ ~Counting(s)'
      BY <1>1, <1>6 DEF CountEnqueued, Return, Counting, At, Idle, Submission
    <2>2. \A x \in Payloads : fate'[x] = "accepted" <=> fate[x] = "accepted" \/ x = submitter[s].payload
      BY <1>1, <1>3, <1>6 DEF CountEnqueued, Return
    <2> DEFINE p == submitter[s].payload
    <2>3. p \in Admitted /\ p \in Admitted'
      BY <1>3, <1>7, <2>1, <2>2, AdmittedIs
    <2>4. \A x : x # p => (x \in Admitted' <=> x \in Admitted)
      BY <1>7, <1>9, <2>1, <2>2, AdmittedIs
    <2>5. QED
      BY <2>3, <2>4
  <1>10. QED
    BY <1>4, <1>5, <1>6

LEMMA InitPlaced == Init => Placed
  <1> SUFFICES ASSUME Init PROVE Placed
    OBVIOUS
  <1>1. \A s \in Submitters : ~Counting(s)
    BY DEF Init, Counting, At, Idle, Submission
  <1>2. \A p : p \notin Admitted
    BY <1>1, AdmittedIs DEF Init
  <1>3. EventsIn(queue) = {} /\ IsInjective(queue)
    BY EventsInEmpty DEF Init
  <1>4. InHand = {} /\ evicted = {} /\ written = {} /\ failed = {}
    BY DEF Init, InHand
  <1>5. QED
    BY <1>2, <1>3, <1>4 DEF Placed, NothingLost, Apart

LEMMA PushPlaced ==
    ASSUME Typed, Placed, NEW s \in Submitters, Push(s)
    PROVE  Placed'
  <1> DEFINE p == submitter[s].payload
             r == PushResult(queue, closed, overflow_policy, MaxSize, p)
  <1>1. /\ p \in Payloads /\ p \notin Admitted
        /\ Admitted' = IF r.ok THEN Admitted \cup {p} ELSE Admitted
    BY PushAdmits
  <1>2. /\ queue' = r.items
        /\ evicted' = IF r.ok /\ r.dropped = 1 THEN evicted \cup {Head(queue)} ELSE evicted
        /\ UNCHANGED <<step, payload, written, failed>>
    BY DEF Push, SubmitUnchanged, retryVars
  <1>3. InHand' = InHand
    BY <1>2 DEF InHand
  <1>4. queue \in Seq(Payloads) /\ SinkTypeOK
    BY DEF Typed, SinkTypeOK
  <1>5. p \notin EventsIn(queue) \cup InHand \cup evicted \cup written \cup failed
    BY <1>1 DEF Placed, NothingLost
  <1>6. CASE ~r.ok
    <2>1. queue' = queue /\ evicted' = evicted
      BY <1>1, <1>2, <1>4, <1>6, PushCases
    <2>2. QED
      BY <1>1, <1>2, <1>3, <1>6, <2>1 DEF Placed, NothingLost, Apart
  <1>7. CASE r.ok /\ r.dropped = 0
    <2>1. queue' = Append(queue, p) /\ evicted' = evicted
      BY <1>1, <1>2, <1>4, <1>7, PushCases
    <2>2. EventsIn(queue') = EventsIn(queue) \cup {p} /\ IsInjective(queue')
      BY <1>1, <1>4, <1>5, <2>1, EventsInAppend DEF Placed, Apart
    <2>3. QED
      BY <1>1, <1>2, <1>3, <1>5, <1>7, <2>1, <2>2 DEF Placed, NothingLost, Apart
  <1>8. CASE r.ok /\ r.dropped = 1
    <2>1. queue' = Append(Tail(queue), p) /\ queue # <<>> /\ evicted' = evicted \cup {Head(queue)}
      BY <1>1, <1>2, <1>4, <1>8, PushCases
    <2>2. /\ Tail(queue) \in Seq(Payloads) /\ IsInjective(Tail(queue))
          /\ EventsIn(queue) = {Head(queue)} \cup EventsIn(Tail(queue))
          /\ Head(queue) \notin EventsIn(Tail(queue))
      BY <1>4, <2>1, EventsInTail DEF Placed, Apart
    <2>3. EventsIn(queue') = EventsIn(Tail(queue)) \cup {p} /\ IsInjective(queue')
      BY <1>1, <1>5, <2>1, <2>2, EventsInAppend
    <2>4. NothingLost'
      BY <1>1, <1>2, <1>3, <1>8, <2>1, <2>2, <2>3 DEF Placed, NothingLost
    <2>5. Apart'
      BY <1>2, <1>3, <1>5, <2>1, <2>2, <2>3 DEF Placed, Apart
    <2>6. QED
      BY <2>4, <2>5 DEF Placed
  <1>9. QED
    BY <1>1, <1>4, <1>6, <1>7, <1>8, PushCases

LEMMA ThreadPlaced ==
    ASSUME Typed, Placed, Thread
    PROVE  Placed'
  <1>1. Admitted' = Admitted /\ evicted' = evicted
    BY ThreadKeeps DEF Admitted
  <1>2. queue \in Seq(Payloads)
    BY DEF Typed, SinkTypeOK
  <1>3. CASE Pop
    <2>1. /\ queue # <<>> /\ queue' = Tail(queue)
          /\ InHand = {} /\ InHand' = {Head(queue)}
          /\ UNCHANGED <<written, failed>>
      BY <1>3 DEF Pop, ThreadGoto, PopFront, InHand
    <2>2. /\ IsInjective(Tail(queue))
          /\ EventsIn(queue) = {Head(queue)} \cup EventsIn(Tail(queue))
          /\ Head(queue) \notin EventsIn(Tail(queue))
      BY <1>2, <2>1, EventsInTail DEF Placed, Apart
    <2>3. NothingLost'
      BY <1>1, <2>1, <2>2 DEF Placed, NothingLost
    <2>4. Apart'
      BY <1>1, <2>1, <2>2 DEF Placed, Apart
    <2>5. QED
      BY <2>3, <2>4 DEF Placed
  <1>4. CASE PopEnds \/ WriteFails \/ Backoff \/ FinalFlush
    <2>1. InHand' = InHand /\ UNCHANGED <<queue, written, failed>>
      BY <1>4 DEF PopEnds, WriteFails, Backoff, FinalFlush, ThreadGoto, InHand, retryVars
    <2>2. QED
      BY <1>1, <2>1 DEF Placed, NothingLost, Apart
  <1>5. CASE WriteSucceeds
    <2>1. /\ InHand = {payload} /\ InHand' = {} /\ written' = written \cup {payload}
          /\ UNCHANGED <<queue, failed>>
      BY <1>5 DEF WriteSucceeds, ThreadGoto, InHand
    <2>2. QED
      BY <1>1, <2>1 DEF Placed, NothingLost, Apart
  <1>6. CASE CountFailure
    <2>1. /\ InHand = {payload} /\ InHand' = {} /\ failed' = failed \cup {payload}
          /\ UNCHANGED <<queue, written>>
      BY <1>6 DEF CountFailure, ThreadGoto, InHand
    <2>2. QED
      BY <1>1, <2>1 DEF Placed, NothingLost, Apart
  <1>7. QED
    BY <1>3, <1>4, <1>5, <1>6 DEF Thread

\* A start finds no payload in hand.
LEMMA ControlPlaced ==
    ASSUME Typed, Placed, Start \/ StopBegins \/ CloseQueue \/ Join \/ Flush
    PROVE  Placed'
  <1>1. UNCHANGED <<queue, submitter, payload, fate, evicted, written, failed>>
    BY DEF Start, StopBegins, CloseQueue, Join, Flush, ControlUnchanged, retryVars, history
  <1>2. Admitted' = Admitted
    BY <1>1 DEF Admitted
  <1>3. InHand' = InHand
    <2>1. CASE Start
      <3>1. ~Holding /\ step' = "pop"
        BY <2>1 DEF Start, Control, Typed, Phases, Holding
      <3>2. QED
        BY <3>1 DEF InHand, Holding
    <2>2. CASE StopBegins \/ CloseQueue \/ Join \/ Flush
      BY <1>1, <2>2 DEF StopBegins, CloseQueue, Join, Flush, InHand
    <2>3. QED
      BY <2>1, <2>2
  <1>4. QED
    BY <1>1, <1>2, <1>3 DEF Placed, NothingLost, Apart

LEMMA StepKeepsPlaced ==
    ASSUME Typed, Placed, [Next]_vars
    PROVE  Placed'
  <1>1. ASSUME NEW s \in Submitters, NEW p \in Payloads, SubmitBegins(s, p) PROVE Placed'
    <2>1. UNCHANGED <<queue, step, payload, evicted, written, failed>>
      BY <1>1 DEF SubmitBegins, SubmitUnchanged, retryVars, history
    <2>2. Admitted' = Admitted
      BY <1>1, SubmitBeginsAdmits
    <2>3. QED
      BY <2>1, <2>2 DEF Placed, NothingLost, Apart, InHand
  <1>2. ASSUME NEW s \in Submitters, Submit(s) PROVE Placed'
    <2>1. CASE Push(s)
      BY <2>1, PushPlaced
    <2>2. CASE CountRejected(s) \/ CountAccepted(s) \/ CountEnqueued(s)
      <3>1. UNCHANGED <<queue, step, payload, evicted, written, failed>>
        BY <2>2 DEF CountRejected, CountAccepted, CountEnqueued, SubmitUnchanged, retryVars, history
      <3>2. Admitted' = Admitted
        BY <2>2, CountAdmits
      <3>3. QED
        BY <3>1, <3>2 DEF Placed, NothingLost, Apart, InHand
    <2>3. QED
      BY <1>2, <2>1, <2>2 DEF Submit
  <1>3. CASE Thread
    BY <1>3, ThreadPlaced
  <1>4. CASE Start \/ StopBegins \/ CloseQueue \/ Join \/ Flush
    BY <1>4, ControlPlaced
  <1>5. CASE UNCHANGED vars
    BY <1>5 DEF vars, queueVars, retryVars, outsideVars, stats, history, Placed, NothingLost,
                Apart, Admitted, InHand
  <1>6. QED
    BY <1>1, <1>2, <1>3, <1>4, <1>5 DEF Next

LEMMA PlacedIsEachInOnePlace == Placed => EachInOnePlace
  <1> SUFFICES ASSUME Placed PROVE EachInOnePlace
    OBVIOUS
  <1> DEFINE places == <<EventsIn(queue), InHand, evicted, written, failed>>
  <1>1. /\ DOMAIN places = 1 .. 5
        /\ places[1] = EventsIn(queue) /\ places[2] = InHand /\ places[3] = evicted
        /\ places[4] = written /\ places[5] = failed
    OBVIOUS
  <1>2. DOMAIN places = {1, 2, 3, 4, 5}
    BY <1>1
  <1>3. EventsIn(places) = {EventsIn(queue), InHand, evicted, written, failed}
    BY <1>1, <1>2 DEF EventsIn
  <1>4. Admitted = UNION EventsIn(places)
    <2> HIDE DEF places
    <2>1. \A x : x \in UNION EventsIn(places) <=>
                     \/ x \in EventsIn(queue) \/ x \in InHand \/ x \in evicted
                     \/ x \in written \/ x \in failed
      BY <1>3
    <2>2. QED
      BY <2>1 DEF Placed, NothingLost
  <1>5. \A i, j \in DOMAIN places : i # j => places[i] \cap places[j] = {}
    <2> HIDE DEF places
    <2>1. \A i, j \in DOMAIN places :
              i # j => \/ i = 1 \/ j = 1 \/ {i, j} \subseteq {2, 3, 4, 5}
      BY <1>2
    <2>2. QED
      BY <1>1, <1>2 DEF Placed, Apart
  <1>6. QED
    BY <1>4, <1>5 DEF EachInOnePlace, Placed, Apart

\* No payload that a push admitted is lost or duplicated: it is in the queue,
\* in the hand of the thread, evicted, written, or given up.
THEOREM PayloadsInOnePlace == SafeSpec => []EachInOnePlace
  <1>1. Init => Typed /\ Placed
    BY InitTyped, InitPlaced
  <1>2. Typed /\ Placed /\ [Next]_vars => (Typed /\ Placed)'
    BY StepKeepsTyped, StepKeepsPlaced
  <1>3. Typed /\ Placed => EachInOnePlace
    BY PlacedIsEachInOnePlace
  <1>4. QED
    BY <1>1, <1>2, <1>3, PTL DEF SafeSpec

\* A stop that returned leaves nothing in the queue or in hand: all that was
\* admitted has been written, evicted or given up, and then flushed.
THEOREM StopSettlesAll == SafeSpec => []StopWritesAll
  <1>1. Init => Typed /\ Placed
    BY InitTyped, InitPlaced
  <1>2. Typed /\ Placed /\ [Next]_vars => (Typed /\ Placed)'
    BY StepKeepsTyped, StepKeepsPlaced
  <1>3. Typed /\ Placed => StopWritesAll
    <2> SUFFICES ASSUME Typed, Placed, control = "stopped"
                 PROVE  Admitted = evicted \cup written \cup failed /\ queue = <<>> /\ flushed
      BY DEF StopWritesAll
    <2>1. step = "done" /\ queue = <<>> /\ flushed
      BY DEF Typed, Phases
    <2>2. InHand = {} /\ EventsIn(queue) = {}
      BY <2>1, EventsInEmpty DEF InHand
    <2>3. QED
      BY <2>1, <2>2 DEF Placed, NothingLost
  <1>4. QED
    BY <1>1, <1>2, <1>3, PTL DEF SafeSpec

-----------------------------------------------------------------------------
(* What the other end gets, and how often.                                 *)

LEMMA CopiesFacts ==
    ASSUME NEW s \in Seq(Payloads), NEW p
    PROVE  /\ IsFiniteSet(CopiesIn(s, p)) /\ Cardinality(CopiesIn(s, p)) \in Nat
           /\ p \notin EventsIn(s) => Cardinality(CopiesIn(s, p)) = 0
  <1>1. Len(s) \in Nat /\ DOMAIN s = 1 .. Len(s)
    OBVIOUS
  <1>2. IsFiniteSet(1 .. Len(s))
    BY <1>1, FS_Interval
  <1>3. IsFiniteSet(CopiesIn(s, p))
    BY <1>1, <1>2, FS_Subset DEF CopiesIn
  <1>4. p \notin EventsIn(s) => CopiesIn(s, p) = {}
    BY DEF CopiesIn, EventsIn
  <1>5. QED
    BY <1>3, <1>4, FS_CardinalityType, FS_EmptySet

LEMMA CopiesAppend ==
    ASSUME NEW s \in Seq(Payloads), NEW e \in Payloads, NEW p \in Payloads
    PROVE  Cardinality(CopiesIn(Append(s, e), p))
               = Cardinality(CopiesIn(s, p)) + (IF p = e THEN 1 ELSE 0)
  <1>1. /\ Append(s, e) \in Seq(Payloads) /\ Len(Append(s, e)) = Len(s) + 1
        /\ Append(s, e)[Len(s) + 1] = e
        /\ \A i \in 1 .. Len(s) : Append(s, e)[i] = s[i]
    BY AppendProperties
  <1>2. /\ Len(s) \in Nat /\ DOMAIN s = 1 .. Len(s)
        /\ DOMAIN Append(s, e) = 1 .. Len(s) + 1
    BY <1>1
  <1>3. \A i : i \in 1 .. Len(s) + 1 <=> i \in 1 .. Len(s) \/ i = Len(s) + 1
    BY <1>2
  <1>4. Len(s) + 1 \notin CopiesIn(s, p)
    BY <1>2 DEF CopiesIn
  <1>5. CopiesIn(Append(s, e), p)
            = IF p = e THEN CopiesIn(s, p) \cup {Len(s) + 1} ELSE CopiesIn(s, p)
    BY <1>1, <1>2, <1>3 DEF CopiesIn
  <1>6. IsFiniteSet(CopiesIn(s, p)) /\ Cardinality(CopiesIn(s, p)) \in Nat
    BY CopiesFacts
  <1>7. Cardinality(CopiesIn(s, p) \cup {Len(s) + 1}) = Cardinality(CopiesIn(s, p)) + 1
    BY <1>4, <1>6, FS_AddElement
  <1>8. QED
    BY <1>5, <1>6, <1>7

LEMMA InitSent == Init => Sent
  <1> SUFFICES ASSUME Init PROVE Sent
    OBVIOUS
  <1>1. received = <<>> /\ ~Holding /\ step # "write"
    BY DEF Init, Holding
  <1>2. EventsIn(received) = {} /\ DOMAIN received = {}
    BY <1>1, EventsInEmpty
  <1>3. \A p : Copies(p) = 0
    BY <1>2, FS_EmptySet DEF Copies, CopiesIn
  <1>4. QED
    BY <1>1, <1>2, <1>3, ConstantFacts DEF Sent

\* A write that delivers the payload in hand.
LEMMA DeliverKeeps ==
    ASSUME Typed, Sent, step = "write", Deliver
    PROVE  /\ payload \in Payloads
           /\ EventsIn(received') = EventsIn(received) \cup {payload}
           /\ \A p \in Payloads : Cardinality(CopiesIn(received', p)) <= Attempts
           /\ Cardinality(CopiesIn(received', payload)) <= attempt
  <1>1. /\ received \in Seq(Payloads) /\ Holding
        /\ attempt \in Nat /\ attempt <= Attempts
    BY ConstantFacts DEF Typed, SinkTypeOK, Holding
  <1>2. payload \in Payloads /\ received' = Append(received, payload)
    BY <1>1 DEF Typed, Phases, Deliver
  <1>4. EventsIn(received') = EventsIn(received) \cup {payload}
    BY <1>1, <1>2, EventsInAppend
  <1>5. \A p \in Payloads : Cardinality(CopiesIn(received', p))
                                = Copies(p) + (IF p = payload THEN 1 ELSE 0)
    BY <1>1, <1>2, CopiesAppend DEF Copies
  <1>6. /\ \A p \in Payloads : Copies(p) \in Nat /\ Copies(p) <= Attempts
        /\ Copies(payload) < attempt
    BY <1>1, CopiesFacts DEF Copies, Sent
  <1>7. Cardinality(CopiesIn(received', payload)) <= attempt
    BY <1>1, <1>2, <1>5, <1>6
  <1>8. ASSUME NEW p \in Payloads PROVE Cardinality(CopiesIn(received', p)) <= Attempts
    <2>1. CASE p = payload
      BY <1>1, <1>2, <1>5, <1>6, <2>1, ConstantFacts
    <2>2. CASE p # payload
      BY <1>5, <1>6, <2>2, ConstantFacts
    <2>3. QED
      BY <2>1, <2>2
  <1>9. QED
    BY <1>2, <1>4, <1>7, <1>8

LEMMA ThreadSent ==
    ASSUME Typed, Placed, Sent, Thread
    PROVE  Sent'
  <1>0. /\ queue \in Seq(Payloads) /\ received \in Seq(Payloads)
        /\ attempt \in Nat /\ attempt <= Attempts
    BY ConstantFacts DEF Typed, SinkTypeOK
  <1>1. CASE Pop
    <2>1. /\ step' = "write" /\ queue # <<>> /\ payload' = Head(queue) /\ attempt' = 1
          /\ UNCHANGED <<received, written, failed>>
          /\ InHand = {} /\ InHand' = {payload'}
      BY <1>1 DEF Pop, PopFront, ThreadGoto, outsideVars, InHand
    <2>2. Head(queue) \in EventsIn(queue)
      BY <1>0, <2>1, EventsInTail
    <2>3. payload' \notin EventsIn(received)
      BY <2>1, <2>2 DEF Sent, Placed, Apart
    <2>4. Cardinality(CopiesIn(received', payload')) = 0
      BY <1>0, <2>1, <2>3, CopiesFacts
    <2>5. QED
      BY <2>1, <2>4 DEF Sent, Copies
  <1>2. CASE PopEnds \/ FinalFlush
    <2>1. /\ UNCHANGED <<payload, attempt, received, written, failed, InHand>>
          /\ ~Holding' /\ step' # "write"
      BY <1>2 DEF PopEnds, FinalFlush, ThreadGoto, retryVars, outsideVars, InHand, Holding
    <2>2. QED
      BY <2>1 DEF Sent, Copies
  <1>3. CASE WriteSucceeds
    <2>1. /\ step = "write" /\ Deliver /\ written' = written \cup {payload} /\ failed' = failed
          /\ InHand = {payload} /\ InHand' = {} /\ ~Holding' /\ step' # "write"
      BY <1>3 DEF WriteSucceeds, ThreadGoto, InHand, Holding
    <2>2. EventsIn(received') \subseteq InHand' \cup written' \cup failed'
      BY <2>1, DeliverKeeps DEF Sent
    <2>3. QED
      BY <2>1, <2>2, DeliverKeeps DEF Sent, Copies
  <1>4. CASE WriteFails
    <2>1. /\ step = "write" /\ FailedWrite /\ UNCHANGED <<payload, attempt, written, failed>>
          /\ step' \in {"backoff", "count_failure"}
      BY <1>4 DEF WriteFails, ThreadGoto, retryVars
    <2>2. InHand' = InHand /\ payload \in InHand /\ Holding /\ step' # "write"
      BY <2>1 DEF InHand, Holding
    <2>3. CASE Deliver
      <3>1. EventsIn(received') \subseteq InHand' \cup written' \cup failed'
        BY <2>1, <2>2, <2>3, DeliverKeeps DEF Sent
      <3>2. QED
        BY <2>1, <2>2, <2>3, <3>1, DeliverKeeps DEF Sent, Copies
    <2>4. CASE UNCHANGED outsideVars
      BY <2>1, <2>2, <2>4 DEF Sent, Copies, outsideVars
    <2>5. QED
      BY <2>1, <2>3, <2>4 DEF FailedWrite
  <1>5. CASE Backoff
    <2>1. /\ step = "backoff" /\ step' = "write" /\ attempt' = attempt + 1
          /\ UNCHANGED <<payload, received, written, failed>>
      BY <1>5 DEF Backoff, ThreadGoto, outsideVars
    <2>2. InHand' = InHand /\ Holding
      BY <2>1 DEF InHand, Holding
    <2>3. Copies(payload) \in Nat /\ Copies(payload) <= attempt
      BY <1>0, <2>2, CopiesFacts DEF Sent, Copies
    <2>4. Copies(payload) < attempt + 1
      BY <1>0, <2>3
    <2>5. Copies(payload)' = Copies(payload) /\ \A p \in Payloads : Copies(p)' = Copies(p)
      BY <2>1 DEF Copies
    <2>6. Sent'
      BY <1>0, <2>1, <2>2, <2>3, <2>4, <2>5 DEF Sent
    <2>7. QED
      BY <2>6
  <1>6. CASE CountFailure
    <2>1. /\ step = "count_failure" /\ step' = "pop" /\ failed' = failed \cup {payload}
          /\ UNCHANGED <<payload, attempt, received, written>>
          /\ InHand = {payload} /\ InHand' = {} /\ ~Holding'
      BY <1>6 DEF CountFailure, ThreadGoto, outsideVars, retryVars, InHand, Holding
    <2>2. QED
      BY <2>1 DEF Sent, Copies
  <1>7. QED
    BY <1>1, <1>2, <1>3, <1>4, <1>5, <1>6 DEF Thread

LEMMA StepKeepsSent ==
    ASSUME Typed, Placed, Sent, [Next]_vars
    PROVE  Sent'
  <1>1. ASSUME UNCHANGED <<step, payload, attempt, received, written, failed>> PROVE Sent'
    BY <1>1 DEF Sent, Copies, InHand, Holding
  <1>2. ASSUME NEW s \in Submitters, NEW p \in Payloads, SubmitBegins(s, p) PROVE Sent'
    BY <1>1, <1>2 DEF SubmitBegins, SubmitUnchanged, retryVars, outsideVars, history
  <1>3. ASSUME NEW s \in Submitters, Submit(s) PROVE Sent'
    BY <1>1, <1>3 DEF Submit, Push, CountRejected, CountAccepted, CountEnqueued,
                      SubmitUnchanged, retryVars, outsideVars, history
  <1>4. CASE Thread
    BY <1>4, ThreadSent
  <1>5. CASE Start
    <2>1. /\ step' = "pop" /\ ~Holding /\ UNCHANGED <<payload, attempt, received, written, failed>>
      BY <1>5 DEF Start, Control, ControlUnchanged, outsideVars, retryVars, history, Typed,
                  Phases, Holding
    <2>2. InHand' = InHand /\ ~Holding' /\ step' # "write"
      BY <2>1 DEF InHand, Holding
    <2>3. QED
      BY <2>1, <2>2 DEF Sent, Copies
  <1>6. CASE StopBegins \/ CloseQueue \/ Join \/ Flush
    BY <1>1, <1>6 DEF StopBegins, CloseQueue, Join, Flush, ControlUnchanged, outsideVars,
                      retryVars, history
  <1>7. CASE UNCHANGED vars
    BY <1>1, <1>7 DEF vars, retryVars, outsideVars, history
  <1>8. QED
    BY <1>2, <1>3, <1>4, <1>5, <1>6, <1>7 DEF Next

-----------------------------------------------------------------------------
(* The other end gets the payloads in the order of their pushes.           *)

LEMMA InitRanked == Init => Ranked
  <1> SUFFICES ASSUME Init PROVE Ranked
    OBVIOUS
  <1>1. DOMAIN received = {} /\ DOMAIN queue = {} /\ ~Holding
    BY EventsInEmpty DEF Init, Holding
  <1>2. QED
    BY <1>1 DEF Ranked

\* A payload that is pushed is new to the queue, to the thread and to the other
\* end, and gets a rank above all there are.
LEMMA PushRanked ==
    ASSUME Typed, Placed, Sent, Ranked, NEW s \in Submitters, Push(s)
    PROVE  Ranked'
  <1> DEFINE p == submitter[s].payload
             r == PushResult(queue, closed, overflow_policy, MaxSize, p)
  <1>1. /\ p \in Payloads /\ p \notin Admitted
    BY PushAdmits
  <1>2. /\ queue' = r.items
        /\ pushes' = IF r.ok THEN pushes + 1 ELSE pushes
        /\ rank' = IF r.ok THEN [rank EXCEPT ![p] = pushes'] ELSE rank
        /\ UNCHANGED <<step, payload, received>>
    BY DEF Push, SubmitUnchanged, retryVars, outsideVars
  <1>3. /\ queue \in Seq(Payloads) /\ received \in Seq(Payloads) /\ SinkTypeOK
        /\ pushes \in Nat /\ rank \in [Payloads -> 0 .. pushes]
        /\ Holding => payload \in Payloads
    BY DEF Typed, SinkTypeOK, Phases
  <1>4. p \notin EventsIn(queue) /\ p \notin InHand /\ p \notin EventsIn(received)
    BY <1>1 DEF Placed, NothingLost, Sent
  <1>5. Holding' = Holding /\ (Holding => payload # p)
    BY <1>2, <1>4 DEF Holding, InHand
  <1>6. CASE ~r.ok
    <2>1. queue' = queue /\ rank' = rank
      BY <1>1, <1>2, <1>3, <1>6, PushCases
    <2>2. QED
      BY <1>2, <1>5, <2>1 DEF Ranked
  <1>7. CASE r.ok
    <2>1. /\ rank'[p] = pushes + 1
          /\ \A x \in Payloads \ {p} : rank'[x] = rank[x] /\ rank[x] < rank'[p]
      BY <1>1, <1>2, <1>3, <1>7
    <2>2. \A i \in DOMAIN received : received[i] \in Payloads \ {p}
      BY <1>3, <1>4 DEF EventsIn
    <2>3. PICK q \in Seq(Payloads) : /\ q = queue \/ (queue # <<>> /\ q = Tail(queue))
                                     /\ queue' = Append(q, p)
      <3>1. queue # <<>> => Tail(queue) \in Seq(Payloads)
        BY <1>3, EventsInTail
      <3>2. QED
        BY <1>1, <1>2, <1>3, <1>7, <3>1, PushCases
    <2>4. /\ \A i \in DOMAIN q : q[i] \in Payloads \ {p}
          /\ \A i, j \in DOMAIN q : i < j => rank[q[i]] < rank[q[j]]
          /\ \A i \in DOMAIN received, j \in DOMAIN q : rank[received[i]] < rank[q[j]]
          /\ Holding => \A j \in DOMAIN q : rank[payload] < rank[q[j]]
      <3>1. CASE q = queue
        BY <1>3, <1>4, <3>1 DEF Ranked, EventsIn
      <3>2. CASE queue # <<>> /\ q = Tail(queue)
        <4>1. /\ Len(q) = Len(queue) - 1 /\ Len(queue) \in Nat
              /\ \A i \in 1 .. Len(q) : q[i] = queue[i + 1]
              /\ DOMAIN q = 1 .. Len(q) /\ DOMAIN queue = 1 .. Len(queue)
          BY <1>3, <3>2
        <4>2. \A i \in DOMAIN q : i + 1 \in DOMAIN queue /\ q[i] = queue[i + 1] /\ i \in Int
          BY <4>1
        <4>3. \A i, j \in DOMAIN q : i < j => i + 1 < j + 1
          BY <4>1
        <4>4. QED
          BY <1>3, <1>4, <4>2, <4>3 DEF Ranked, EventsIn
      <3>3. QED
        BY <2>3, <3>1, <3>2
    <2>5. /\ DOMAIN q = 1 .. Len(q) /\ DOMAIN queue' = 1 .. Len(q) + 1 /\ Len(q) \in Nat
          /\ queue'[Len(q) + 1] = p
          /\ \A i \in DOMAIN q : queue'[i] = q[i]
      BY <1>1, <2>3, AppendProperties
    <2>6. \A j \in DOMAIN queue' : j \in DOMAIN q \/ j = Len(q) + 1
      BY <2>5
    <2>7. ASSUME NEW i \in DOMAIN queue', NEW j \in DOMAIN queue', i < j
          PROVE  rank'[queue'[i]] < rank'[queue'[j]]
      <3>1. i \in DOMAIN q
        BY <2>5, <2>6, <2>7
      <3>2. queue'[i] = q[i] /\ q[i] \in Payloads \ {p}
        BY <2>4, <2>5, <3>1
      <3>3. CASE j \in DOMAIN q
        <4>1. queue'[j] = q[j] /\ q[j] \in Payloads \ {p} /\ rank[q[i]] < rank[q[j]]
          BY <2>4, <2>5, <2>7, <3>1, <3>3
        <4>2. QED
          BY <2>1, <3>2, <4>1
      <3>4. CASE j = Len(q) + 1
        BY <2>1, <2>5, <3>2, <3>4
      <3>5. QED
        BY <2>6, <3>3, <3>4
    <2>8. \A i, j \in DOMAIN received : i < j => rank'[received[i]] <= rank'[received[j]]
      BY <2>1, <2>2 DEF Ranked
    <2>9. \A i \in DOMAIN received, j \in DOMAIN queue' : rank'[received[i]] < rank'[queue'[j]]
      BY <2>1, <2>2, <2>4, <2>5, <2>6
    <2>10. Holding => /\ \A j \in DOMAIN queue' : rank'[payload] < rank'[queue'[j]]
                      /\ \A i \in DOMAIN received : rank'[received[i]] <= rank'[payload]
      <3> SUFFICES ASSUME Holding
                   PROVE  /\ \A j \in DOMAIN queue' : rank'[payload] < rank'[queue'[j]]
                          /\ \A i \in DOMAIN received : rank'[received[i]] <= rank'[payload]
        OBVIOUS
      <3>1. payload \in Payloads \ {p}
        BY <1>3, <1>5
      <3>2. \A i \in DOMAIN received : rank'[received[i]] <= rank'[payload]
        BY <2>1, <2>2, <3>1 DEF Ranked
      <3>3. \A j \in DOMAIN q : rank'[payload] < rank'[queue'[j]]
        BY <2>1, <2>4, <2>5, <3>1
      <3>4. rank'[payload] < rank'[queue'[Len(q) + 1]]
        BY <2>1, <2>5, <3>1
      <3>5. QED
        BY <2>6, <3>2, <3>3, <3>4
    <2>11. QED
      BY <1>2, <1>5, <2>7, <2>8, <2>9, <2>10 DEF Ranked
  <1>8. QED
    BY <1>6, <1>7

\* The thread takes the payload of the lowest rank, and delivers what it took.
LEMMA ThreadRanked ==
    ASSUME Typed, Ranked, Thread
    PROVE  Ranked'
  <1>0. queue \in Seq(Payloads) /\ received \in Seq(Payloads) /\ rank' = rank
    BY ThreadKeeps DEF Typed, SinkTypeOK
  <1>1. CASE Pop
    <2>1. /\ queue # <<>> /\ queue' = Tail(queue) /\ payload' = Head(queue)
          /\ received' = received
      BY <1>1 DEF Pop, PopFront, outsideVars
    <2>2. /\ Len(queue') = Len(queue) - 1 /\ Len(queue) \in Nat
          /\ \A i \in 1 .. Len(queue') : queue'[i] = queue[i + 1]
          /\ DOMAIN queue' = 1 .. Len(queue') /\ DOMAIN queue = 1 .. Len(queue)
          /\ 1 \in DOMAIN queue /\ payload' = queue[1]
      BY <1>0, <2>1
    <2>3. \A i \in DOMAIN queue' : i + 1 \in DOMAIN queue /\ queue'[i] = queue[i + 1] /\ 1 < i + 1
      BY <2>2
    <2>4. \A i, j \in DOMAIN queue' : i < j => i + 1 < j + 1
      BY <2>2
    <2>5. \A i \in DOMAIN received : rank[received[i]] <= rank[queue[1]]
      <3>1. \A i \in DOMAIN received : rank[received[i]] \in Nat /\ rank[queue[1]] \in Nat
        BY <1>0, <2>2 DEF Typed, SinkTypeOK
      <3>2. QED
        BY <2>2, <3>1 DEF Ranked
    <2>6. QED
      BY <1>0, <2>1, <2>2, <2>3, <2>4, <2>5 DEF Ranked
  <1>2. CASE (WriteSucceeds \/ WriteFails) /\ Deliver
    <2>1. /\ Holding /\ UNCHANGED <<queue, payload>> /\ received' = Append(received, payload)
      BY <1>2 DEF WriteSucceeds, WriteFails, Deliver, ThreadGoto, Holding, retryVars
    <2>2. payload \in Payloads /\ rank[payload] <= rank[payload]
      BY <2>1 DEF Typed, Phases, SinkTypeOK
    <2>3. /\ DOMAIN received = 1 .. Len(received) /\ DOMAIN received' = 1 .. Len(received) + 1
          /\ Len(received) \in Nat
          /\ received'[Len(received) + 1] = payload
          /\ \A i \in DOMAIN received : received'[i] = received[i]
      BY <1>0, <2>1, <2>2, AppendProperties
    <2>4. \A i \in DOMAIN received' : i \in DOMAIN received \/ i = Len(received) + 1
      BY <2>3
    <2>5. \A i \in DOMAIN received' : rank[received'[i]] <= rank[payload]
      BY <2>1, <2>2, <2>3, <2>4 DEF Ranked
    <2>6. ASSUME NEW i \in DOMAIN received', NEW j \in DOMAIN received', i < j
          PROVE  rank[received'[i]] <= rank[received'[j]]
      <3>1. i \in DOMAIN received
        BY <2>3, <2>4, <2>6
      <3>2. QED
        BY <2>3, <2>4, <2>5, <2>6, <3>1 DEF Ranked
    <2>7. \A i \in DOMAIN received', j \in DOMAIN queue : rank[received'[i]] < rank[queue[j]]
      BY <2>1, <2>3, <2>4 DEF Ranked
    <2>8. QED
      BY <1>0, <2>1, <2>5, <2>6, <2>7 DEF Ranked
  <1>3. CASE WriteFails /\ UNCHANGED outsideVars
    BY <1>0, <1>3 DEF WriteFails, ThreadGoto, Holding, retryVars, outsideVars, Ranked
  <1>4. CASE PopEnds \/ Backoff \/ CountFailure \/ FinalFlush
    <2>1. UNCHANGED <<queue, payload, received>> /\ (Holding' => Holding)
      BY <1>4 DEF PopEnds, Backoff, CountFailure, FinalFlush, ThreadGoto, Holding, retryVars,
                  outsideVars
    <2>2. QED
      BY <1>0, <2>1 DEF Ranked
  <1>5. QED
    BY <1>1, <1>2, <1>3, <1>4 DEF Thread, WriteSucceeds, WriteFails, FailedWrite

LEMMA StepKeepsRanked ==
    ASSUME Typed, Placed, Sent, Ranked, [Next]_vars
    PROVE  Ranked'
  <1>1. ASSUME UNCHANGED <<queue, payload, received, rank>>, Holding' => Holding PROVE Ranked'
    BY <1>1 DEF Ranked
  <1>2. ASSUME NEW s \in Submitters, NEW p \in Payloads, SubmitBegins(s, p) PROVE Ranked'
    BY <1>1, <1>2 DEF SubmitBegins, SubmitUnchanged, retryVars, outsideVars, history, order,
                      Holding
  <1>3. ASSUME NEW s \in Submitters, CountRejected(s) \/ CountAccepted(s) \/ CountEnqueued(s)
        PROVE  Ranked'
    BY <1>1, <1>3 DEF CountRejected, CountAccepted, CountEnqueued, SubmitUnchanged, retryVars,
                      outsideVars, history, order, Holding
  <1>4. CASE Start \/ StopBegins \/ CloseQueue \/ Join \/ Flush
    BY <1>1, <1>4 DEF Start, StopBegins, CloseQueue, Join, Flush, ControlUnchanged, outsideVars,
                      retryVars, history, order, Holding
  <1>5. CASE UNCHANGED vars
    BY <1>1, <1>5 DEF vars, queueVars, retryVars, outsideVars, history, order, Holding
  <1>6. QED
    BY <1>2, <1>3, <1>4, <1>5, PushRanked, ThreadRanked DEF Next, Submit

\* However writes fail, whether a failed one delivered or not, and whatever is
\* evicted in between: the other end gets payloads in the order in which they
\* were pushed, and none more often than it is attempted.
THEOREM ReceivedOrder == SafeSpec => []ReceivedInOrder
  <1>1. Init => Typed /\ Placed /\ Sent /\ Ranked
    BY InitTyped, InitPlaced, InitSent, InitRanked
  <1>2. Typed /\ Placed /\ Sent /\ Ranked /\ [Next]_vars => (Typed /\ Placed /\ Sent /\ Ranked)'
    BY StepKeepsTyped, StepKeepsPlaced, StepKeepsSent, StepKeepsRanked
  <1>3. Sent /\ Ranked => ReceivedInOrder
    BY DEF ReceivedInOrder, Ranked, Sent, Copies, CopiesIn
  <1>4. QED
    BY <1>1, <1>2, <1>3, PTL DEF SafeSpec

-----------------------------------------------------------------------------
(* The statistics.                                                         *)

\* The submitters that a counter does not show yet, and the payloads that a
\* full queue rejected.
Rejecting(s) == At(s, "count_rejected") /\ submitter[s].dropped_now = 1
Dropping(s) == Rejecting(s) \/ (At(s, "count_accepted") /\ submitter[s].dropped_now = 1)

Uncounted == {s \in Submitters : Counting(s)}
DropsUncounted == {s \in Submitters : Dropping(s)}
Rejected ==
    {p \in Payloads : fate[p] = "dropped"} \cup
    {submitter[s].payload : s \in {x \in Submitters : Rejecting(x)}}

Counted ==
    /\ enqueued + Cardinality(Uncounted) = Cardinality(Admitted)
    /\ dropped + Cardinality(DropsUncounted) = Cardinality(evicted) + Cardinality(Rejected)
    /\ write_failures = Cardinality(failed)

\* One more element, or one less.
LEMMA OneMore ==
    ASSUME NEW S, IsFiniteSet(S), NEW x, x \notin S
    PROVE  Cardinality(S) \in Nat /\ Cardinality(S \cup {x}) = Cardinality(S) + 1
  BY FS_CardinalityType, FS_AddElement

LEMMA OneLess ==
    ASSUME NEW S, IsFiniteSet(S), NEW x \in S
    PROVE  Cardinality(S) \in Nat /\ Cardinality(S) = Cardinality(S \ {x}) + 1
           /\ Cardinality(S \ {x}) \in Nat
  <1>1. IsFiniteSet(S \ {x}) /\ x \notin S \ {x} /\ (S \ {x}) \cup {x} = S
    BY FS_Subset
  <1>2. QED
    BY <1>1, OneMore, FS_CardinalityType

LEMMA CountedSets ==
    ASSUME Typed
    PROVE  /\ IsFiniteSet(Uncounted) /\ Cardinality(Uncounted) \in Nat
           /\ IsFiniteSet(DropsUncounted) /\ Cardinality(DropsUncounted) \in Nat
           /\ IsFiniteSet(Admitted) /\ Cardinality(Admitted) \in Nat
           /\ IsFiniteSet(Rejected) /\ Cardinality(Rejected) \in Nat
           /\ IsFiniteSet(evicted) /\ Cardinality(evicted) \in Nat
           /\ IsFiniteSet(failed) /\ Cardinality(failed) \in Nat
           /\ enqueued \in Nat /\ dropped \in Nat /\ write_failures \in Nat
  <1>1. Uncounted \subseteq Submitters /\ DropsUncounted \subseteq Submitters
    BY DEF Uncounted, DropsUncounted
  <1>2. \A s \in Submitters : Counting(s) \/ Rejecting(s) => submitter[s].payload \in Payloads
    BY DEF Typed, Busy, Counting, Rejecting, At
  <1>3. Admitted \subseteq Payloads
    BY <1>2, AdmittedIs
  <1>4. Rejected \subseteq Payloads
    BY <1>2 DEF Rejected
  <1>5. /\ evicted \subseteq Payloads /\ failed \subseteq Payloads
        /\ enqueued \in Nat /\ dropped \in Nat /\ write_failures \in Nat
    BY DEF Typed, SinkTypeOK
  <1>6. /\ IsFiniteSet(Uncounted) /\ IsFiniteSet(DropsUncounted) /\ IsFiniteSet(Admitted)
        /\ IsFiniteSet(Rejected) /\ IsFiniteSet(evicted) /\ IsFiniteSet(failed)
    BY <1>1, <1>3, <1>4, <1>5, ConstantFacts, FS_Subset
  <1>7. QED
    BY <1>5, <1>6, FS_CardinalityType

LEMMA RejectedIs ==
    \A p : p \in Rejected <=>
               \/ p \in Payloads /\ fate[p] = "dropped"
               \/ \E s \in Submitters : Rejecting(s) /\ submitter[s].payload = p
  BY DEF Rejected

LEMMA InitCounted == Init => Counted
  <1> SUFFICES ASSUME Init PROVE Counted
    OBVIOUS
  <1>1. \A s \in Submitters : ~Counting(s) /\ ~Rejecting(s) /\ ~Dropping(s)
    BY DEF Init, Counting, Rejecting, Dropping, At, Idle, Submission
  <1>2. Uncounted = {} /\ DropsUncounted = {}
    BY <1>1 DEF Uncounted, DropsUncounted
  <1>3. Admitted = {} /\ Rejected = {}
    BY <1>1, AdmittedIs, RejectedIs DEF Init
  <1>4. QED
    BY <1>2, <1>3, FS_EmptySet DEF Init, Counted

\* What the step of one submitter leaves alone.
LEMMA OthersKeep ==
    ASSUME NEW s \in Submitters, \A t \in Submitters : t # s => submitter'[t] = submitter[t]
    PROVE  /\ Uncounted' \ {s} = Uncounted \ {s}
           /\ DropsUncounted' \ {s} = DropsUncounted \ {s}
           /\ \A t \in Submitters : t # s => /\ Rejecting(t)' <=> Rejecting(t)
                                             /\ submitter'[t].payload = submitter[t].payload
  BY DEF Uncounted, DropsUncounted, Counting, Dropping, Rejecting, At

LEMMA SubmitBeginsCounted ==
    ASSUME Typed, Counted, NEW s \in Submitters, NEW p \in Payloads, SubmitBegins(s, p)
    PROVE  Counted'
  <1>1. submitter \in [Submitters -> SubmitterType] /\ fate \in [Payloads -> Fates]
    BY DEF Typed, SinkTypeOK, SubmitterType
  <1>2. /\ submitter'[s].step = "push" /\ submitter[s].step = "idle"
        /\ fate[p] = "new" /\ fate'[p] = "pending"
        /\ \A t \in Submitters : t # s => submitter'[t] = submitter[t]
        /\ \A x \in Payloads : x # p => fate'[x] = fate[x]
        /\ UNCHANGED <<enqueued, dropped, write_failures, evicted, failed>>
    BY <1>1 DEF SubmitBegins, Submission, Idle, SubmitUnchanged, history
  <1>3. /\ ~Counting(s) /\ ~Dropping(s) /\ ~Rejecting(s)
        /\ ~Counting(s)' /\ ~Dropping(s)' /\ ~Rejecting(s)'
    BY <1>2 DEF Counting, Dropping, Rejecting, At
  <1>4. Uncounted' = Uncounted /\ DropsUncounted' = DropsUncounted
    BY <1>2, <1>3 DEF Uncounted, DropsUncounted, Counting, Dropping, Rejecting, At
  <1>5. Admitted' = Admitted
    BY SubmitBeginsAdmits
  <1>6. Rejected' = Rejected
    <2>1. \A x \in Payloads : fate'[x] = "dropped" <=> fate[x] = "dropped"
      BY <1>2
    <2>2. \A t \in Submitters : (Rejecting(t)' <=> Rejecting(t))
                                /\ (Rejecting(t) => submitter'[t] = submitter[t])
      BY <1>2, <1>3, OthersKeep
    <2>3. QED
      BY <2>1, <2>2 DEF Rejected
  <1>7. QED
    BY <1>2, <1>4, <1>5, <1>6 DEF Counted

LEMMA PushCounted ==
    ASSUME Typed, Placed, Counted, NEW s \in Submitters, Push(s)
    PROVE  Counted'
  <1> DEFINE p == submitter[s].payload
             r == PushResult(queue, closed, overflow_policy, MaxSize, p)
  <1>1. /\ p \in Payloads /\ p \notin Admitted
        /\ Admitted' = IF r.ok THEN Admitted \cup {p} ELSE Admitted
    BY PushAdmits
  <1>2. submitter \in [Submitters -> SubmitterType] /\ SinkTypeOK /\ queue \in Seq(Payloads)
    BY DEF Typed, SinkTypeOK, SubmitterType
  <1>3. r.ok \in BOOLEAN /\ r.dropped \in {0, 1}
    BY <1>1, <1>2, PushCases
  <1>4. /\ evicted' = IF r.ok /\ r.dropped = 1 THEN evicted \cup {Head(queue)} ELSE evicted
        /\ UNCHANGED <<enqueued, dropped, write_failures, failed, fate>>
    BY DEF Push, SubmitUnchanged
  <1>5. /\ submitter'[s].payload = p /\ submitter'[s].dropped_now = r.dropped
        /\ submitter'[s].step = IF r.ok THEN "count_accepted" ELSE "count_rejected"
        /\ submitter[s].step = "push"
        /\ \A t \in Submitters : t # s => submitter'[t] = submitter[t]
    BY <1>2 DEF Push, Submission
  <1>6. /\ ~Counting(s) /\ ~Dropping(s) /\ ~Rejecting(s)
        /\ Counting(s)' <=> r.ok
        /\ Dropping(s)' <=> r.dropped = 1
        /\ Rejecting(s)' <=> ~r.ok /\ r.dropped = 1
    BY <1>3, <1>5 DEF Counting, Dropping, Rejecting, At
  <1>7. /\ s \notin Uncounted /\ s \notin DropsUncounted
        /\ s \in Uncounted' <=> r.ok
        /\ s \in DropsUncounted' <=> r.dropped = 1
    BY <1>6 DEF Uncounted, DropsUncounted
  <1>8. /\ Uncounted' = IF r.ok THEN Uncounted \cup {s} ELSE Uncounted
        /\ DropsUncounted' = IF r.dropped = 1 THEN DropsUncounted \cup {s} ELSE DropsUncounted
    <2>1. Uncounted' \ {s} = Uncounted \ {s} /\ DropsUncounted' \ {s} = DropsUncounted \ {s}
      BY <1>5, OthersKeep
    <2>2. QED
      BY <1>7, <2>1
  <1>9. p \notin Rejected
    <2>1. ~At(s, "idle") /\ fate[p] = "pending"
      BY <1>5 DEF At, Typed, Busy
    <2>2. \A t \in Submitters : Rejecting(t) => t # s /\ ~At(t, "idle")
      BY <1>6 DEF Rejecting, At
    <2>3. \A t \in Submitters : Rejecting(t) => submitter[t].payload # p
      BY <2>1, <2>2 DEF Typed, Alone
    <2>4. QED
      BY <2>1, <2>3, RejectedIs
  <1>10. Rejected' = IF ~r.ok /\ r.dropped = 1 THEN Rejected \cup {p} ELSE Rejected
    <2>1. \A t \in Submitters : t # s => /\ Rejecting(t)' <=> Rejecting(t)
                                         /\ submitter'[t].payload = submitter[t].payload
      BY <1>5, OthersKeep
    <2>2. \A x : x \in Rejected' <=>
                     \/ x \in Payloads /\ fate'[x] = "dropped"
                     \/ \E t \in Submitters : Rejecting(t)' /\ submitter'[t].payload = x
      BY DEF Rejected
    <2>3. \A x : x \in Rejected' <=> x \in Rejected \/ (~r.ok /\ r.dropped = 1 /\ x = p)
      <3>1. \A t \in Submitters : Rejecting(t) => Rejecting(t)' /\ submitter'[t].payload = submitter[t].payload
        BY <1>6, <2>1
      <3>2. \A t \in Submitters :
                Rejecting(t)' => \/ Rejecting(t) /\ submitter'[t].payload = submitter[t].payload
                                 \/ ~r.ok /\ r.dropped = 1 /\ submitter'[t].payload = p
        BY <1>5, <1>6, <2>1
      <3>3. ~r.ok /\ r.dropped = 1 => \E t \in Submitters : Rejecting(t)' /\ submitter'[t].payload = p
        BY <1>5, <1>6
      <3>4. QED
        BY <1>4, <2>2, <3>1, <3>2, <3>3, RejectedIs
    <2>4. QED
      BY <2>3
  <1>11. r.ok /\ r.dropped = 1 => Head(queue) \notin evicted
    <2>1. ASSUME r.ok, r.dropped = 1 PROVE Head(queue) \in EventsIn(queue)
      BY <1>1, <1>2, <2>1, PushCases, EventsInTail
    <2>2. QED
      BY <2>1 DEF Placed, Apart
  <1> HIDE DEF p, r
  <1>12. enqueued' + Cardinality(Uncounted') = Cardinality(Admitted')
    <2>1. CASE r.ok
      <3>1. Cardinality(Uncounted') = Cardinality(Uncounted) + 1
        BY <1>7, <1>8, <2>1, CountedSets, OneMore
      <3>2. Cardinality(Admitted') = Cardinality(Admitted) + 1
        BY <1>1, <2>1, CountedSets, OneMore
      <3>3. QED
        BY <1>4, <3>1, <3>2, CountedSets DEF Counted
    <2>2. CASE ~r.ok
      BY <1>1, <1>4, <1>8, <2>2 DEF Counted
    <2>3. QED
      BY <2>1, <2>2
  <1>13. dropped' + Cardinality(DropsUncounted') = Cardinality(evicted') + Cardinality(Rejected')
    <2>1. CASE r.dropped = 1
      <3>1. Cardinality(DropsUncounted') = Cardinality(DropsUncounted) + 1
        BY <1>7, <1>8, <2>1, CountedSets, OneMore
      <3>2. Cardinality(evicted') + Cardinality(Rejected')
                = Cardinality(evicted) + Cardinality(Rejected) + 1
        <4>1. CASE r.ok
          <5>1. Cardinality(evicted') = Cardinality(evicted) + 1 /\ Rejected' = Rejected
            BY <1>4, <1>10, <1>11, <2>1, <4>1, CountedSets, OneMore
          <5>2. QED
            BY <5>1, CountedSets
        <4>2. CASE ~r.ok
          <5>1. Cardinality(Rejected') = Cardinality(Rejected) + 1 /\ evicted' = evicted
            BY <1>4, <1>9, <1>10, <2>1, <4>2, CountedSets, OneMore
          <5>2. QED
            BY <5>1, CountedSets
        <4>3. QED
          BY <4>1, <4>2
      <3>3. QED
        BY <1>4, <3>1, <3>2, CountedSets DEF Counted
    <2>2. CASE r.dropped # 1
      BY <1>4, <1>8, <1>10, <2>2 DEF Counted
    <2>3. QED
      BY <2>1, <2>2
  <1>14. QED
    BY <1>4, <1>12, <1>13 DEF Counted

\* What a counting step does to the sets of those that are not counted yet.
LEMMA CountSets ==
    ASSUME Typed, NEW s \in Submitters, CountRejected(s) \/ CountAccepted(s) \/ CountEnqueued(s)
    PROVE  /\ Admitted' = Admitted /\ Rejected' = Rejected
           /\ UNCHANGED <<evicted, failed, write_failures>>
           /\ IF CountEnqueued(s)
              THEN s \in Uncounted /\ Uncounted' = Uncounted \ {s} /\ enqueued' = enqueued + 1
              ELSE Uncounted' = Uncounted /\ enqueued' = enqueued
           /\ IF s \in DropsUncounted
              THEN DropsUncounted' = DropsUncounted \ {s} /\ dropped' = dropped + 1
              ELSE DropsUncounted' = DropsUncounted /\ dropped' = dropped
  <1> DEFINE p == submitter[s].payload
             d == submitter[s].dropped_now
  <1>1. submitter \in [Submitters -> SubmitterType] /\ fate \in [Payloads -> Fates] /\ dropped \in Nat
    BY DEF Typed, SinkTypeOK, SubmitterType
  <1>2. ~At(s, "idle") /\ d \in {0, 1}
    BY <1>1 DEF CountRejected, CountAccepted, CountEnqueued, Return, Goto, At, SubmitterType
  <1>3. p \in Payloads /\ fate[p] = "pending"
    BY <1>2 DEF Typed, Busy
  <1>4. \A t \in Submitters : t # s => submitter'[t] = submitter[t]
    BY <1>1 DEF CountRejected, CountAccepted, CountEnqueued, Return, Goto
  <1>5. /\ Uncounted' \ {s} = Uncounted \ {s} /\ DropsUncounted' \ {s} = DropsUncounted \ {s}
        /\ \A t \in Submitters : t # s => /\ Rejecting(t)' <=> Rejecting(t)
                                          /\ submitter'[t].payload = submitter[t].payload
    BY <1>4, OthersKeep
  <1>6. \A x : x \in Rejected' <=>
                   \/ x \in Payloads /\ fate'[x] = "dropped"
                   \/ \E t \in Submitters : Rejecting(t)' /\ submitter'[t].payload = x
    BY DEF Rejected
  <1>7. /\ s \in Uncounted <=> Counting(s)
        /\ s \in Uncounted' <=> Counting(s)'
        /\ s \in DropsUncounted <=> Dropping(s)
        /\ s \in DropsUncounted' <=> Dropping(s)'
    BY DEF Uncounted, DropsUncounted
  <1>8. Admitted' = Admitted
    BY CountAdmits
  <1>9. UNCHANGED <<evicted, failed, write_failures>>
    BY DEF CountRejected, CountAccepted, CountEnqueued, SubmitUnchanged, history
  <1>10. CASE CountRejected(s)
    <2>1. /\ At(s, "count_rejected") /\ submitter'[s].step = "idle"
          /\ dropped' = dropped + d /\ enqueued' = enqueued
          /\ fate' = [fate EXCEPT ![p] = IF d = 1 THEN "dropped" ELSE "refused"]
      BY <1>1, <1>10 DEF CountRejected, Return, At, Idle, Submission
    <2>2. /\ ~Counting(s) /\ ~Counting(s)' /\ ~Dropping(s)' /\ ~Rejecting(s)'
          /\ Dropping(s) <=> d = 1
          /\ Rejecting(s) <=> d = 1
          /\ ~At(s, "count_enqueued")
      BY <2>1 DEF Counting, Dropping, Rejecting, At
    <2>3. ~CountEnqueued(s)
      BY <2>2 DEF CountEnqueued, Return, At
    <2>a. s \notin Uncounted /\ s \notin Uncounted' /\ s \notin DropsUncounted'
      BY <1>7, <2>2
    <2>4. Uncounted' = Uncounted /\ DropsUncounted' = DropsUncounted \ {s}
      BY <1>5, <2>a
    <2>5. \A x \in Payloads : fate'[x] = "dropped" <=> fate[x] = "dropped" \/ (d = 1 /\ x = p)
      BY <1>1, <1>3, <2>1
    <2>6. Rejected' = Rejected
      <3>1. p \in Rejected' <=> p \in Rejected
        <4>1. CASE d = 1
          <5>1. p \in Rejected
            BY <2>2, <4>1, RejectedIs
          <5>2. p \in Rejected'
            BY <1>3, <1>6, <2>5, <4>1
          <5>3. QED
            BY <5>1, <5>2
        <4>2. CASE d # 1
          <5>1. \A t \in Submitters : /\ Rejecting(t)' <=> Rejecting(t)
                                      /\ Rejecting(t) => submitter'[t].payload = submitter[t].payload
            BY <1>5, <2>2, <4>2
          <5>2. QED
            BY <1>6, <2>5, <4>2, <5>1, RejectedIs
        <4>3. QED
          BY <4>1, <4>2
      <3>2. \A x : x # p => (x \in Rejected' <=> x \in Rejected)
        BY <1>5, <1>6, <2>2, <2>5, RejectedIs
      <3>3. QED
        BY <3>1, <3>2
    <2>7. IF s \in DropsUncounted
          THEN DropsUncounted' = DropsUncounted \ {s} /\ dropped' = dropped + 1
          ELSE DropsUncounted' = DropsUncounted /\ dropped' = dropped
      BY <1>1, <1>2, <1>7, <2>1, <2>2, <2>4
    <2>8. QED
      BY <1>8, <1>9, <2>1, <2>3, <2>4, <2>6, <2>7
  <1>11. CASE CountAccepted(s)
    <2>1. /\ At(s, "count_accepted") /\ submitter'[s].step = "count_enqueued"
          /\ dropped' = dropped + d /\ enqueued' = enqueued /\ fate' = fate
      BY <1>1, <1>11 DEF CountAccepted, Goto, At, SubmitterType
    <2>2. /\ Counting(s) /\ Counting(s)' /\ ~Dropping(s)' /\ ~Rejecting(s)' /\ ~Rejecting(s)
          /\ Dropping(s) <=> d = 1
          /\ ~At(s, "count_enqueued")
      BY <2>1 DEF Counting, Dropping, Rejecting, At
    <2>3. ~CountEnqueued(s)
      BY <2>2 DEF CountEnqueued, Return, At
    <2>a. s \in Uncounted /\ s \in Uncounted' /\ s \notin DropsUncounted'
      BY <1>7, <2>2
    <2>4. Uncounted' = Uncounted /\ DropsUncounted' = DropsUncounted \ {s}
      BY <1>5, <2>a
    <2>5. Rejected' = Rejected
      <3>1. \A t \in Submitters : /\ Rejecting(t)' <=> Rejecting(t)
                                  /\ Rejecting(t) => submitter'[t].payload = submitter[t].payload
        BY <1>5, <2>2
      <3>2. \A x : x \in Rejected' <=> x \in Rejected
        BY <1>6, <2>1, <3>1, RejectedIs
      <3>3. QED
        BY <3>2
    <2>6. IF s \in DropsUncounted
          THEN DropsUncounted' = DropsUncounted \ {s} /\ dropped' = dropped + 1
          ELSE DropsUncounted' = DropsUncounted /\ dropped' = dropped
      BY <1>1, <1>2, <1>7, <2>1, <2>2, <2>4
    <2>7. QED
      BY <1>8, <1>9, <2>1, <2>3, <2>4, <2>5, <2>6
  <1>12. CASE CountEnqueued(s)
    <2>1. /\ At(s, "count_enqueued") /\ submitter'[s].step = "idle"
          /\ dropped' = dropped /\ enqueued' = enqueued + 1
          /\ fate' = [fate EXCEPT ![p] = "accepted"]
      BY <1>1, <1>12 DEF CountEnqueued, Return, At, Idle, Submission
    <2>2. /\ Counting(s) /\ ~Counting(s)' /\ ~Dropping(s)' /\ ~Rejecting(s)' /\ ~Rejecting(s)
          /\ ~Dropping(s)
      BY <2>1 DEF Counting, Dropping, Rejecting, At
    <2>3. Uncounted' = Uncounted \ {s} /\ DropsUncounted' = DropsUncounted
      BY <1>5, <1>7, <2>2
    <2>4. \A x \in Payloads : fate'[x] = "dropped" <=> fate[x] = "dropped"
      BY <1>1, <1>3, <2>1
    <2>5. Rejected' = Rejected
      BY <1>5, <1>6, <2>2, <2>4, RejectedIs
    <2>6. QED
      BY <1>7, <1>8, <1>9, <1>12, <2>1, <2>2, <2>3, <2>5
  <1>13. QED
    BY <1>10, <1>11, <1>12

LEMMA CountCounted ==
    ASSUME Typed, Counted, NEW s \in Submitters,
           CountRejected(s) \/ CountAccepted(s) \/ CountEnqueued(s)
    PROVE  Counted'
  <1>1. enqueued' + Cardinality(Uncounted') = Cardinality(Admitted')
    <2>1. CASE CountEnqueued(s)
      <3>1. s \in Uncounted /\ Uncounted' = Uncounted \ {s} /\ enqueued' = enqueued + 1
        BY <2>1, CountSets
      <3>2. Cardinality(Uncounted) = Cardinality(Uncounted') + 1 /\ Cardinality(Uncounted') \in Nat
        BY <3>1, CountedSets, OneLess
      <3>3. QED
        BY <3>1, <3>2, CountSets, CountedSets DEF Counted
    <2>2. CASE ~CountEnqueued(s)
      BY <2>2, CountSets DEF Counted
    <2>3. QED
      BY <2>1, <2>2
  <1>2. dropped' + Cardinality(DropsUncounted') = Cardinality(evicted') + Cardinality(Rejected')
    <2>1. Rejected' = Rejected /\ evicted' = evicted
      BY CountSets
    <2>2. CASE s \in DropsUncounted
      <3>1. DropsUncounted' = DropsUncounted \ {s} /\ dropped' = dropped + 1
        BY <2>2, CountSets
      <3>2. /\ Cardinality(DropsUncounted) = Cardinality(DropsUncounted') + 1
            /\ Cardinality(DropsUncounted') \in Nat
        BY <2>2, <3>1, CountedSets, OneLess
      <3>3. QED
        BY <2>1, <3>1, <3>2, CountedSets DEF Counted
    <2>3. CASE s \notin DropsUncounted
      BY <2>1, <2>3, CountSets DEF Counted
    <2>4. QED
      BY <2>2, <2>3
  <1>3. write_failures' = Cardinality(failed')
    BY CountSets DEF Counted
  <1>4. QED
    BY <1>1, <1>2, <1>3 DEF Counted

LEMMA ThreadCounted ==
    ASSUME Typed, Placed, Counted, Thread
    PROVE  Counted'
  <1>1. UNCHANGED <<submitter, enqueued, dropped, fate, evicted>>
    BY ThreadKeeps
  <1>2. /\ Uncounted' = Uncounted /\ DropsUncounted' = DropsUncounted
        /\ Admitted' = Admitted /\ Rejected' = Rejected
    BY <1>1 DEF Uncounted, DropsUncounted, Admitted, Rejected, Counting, Dropping, Rejecting, At
  <1>3. write_failures' = Cardinality(failed')
    <2>1. CASE CountFailure
      <3>1. /\ write_failures' = write_failures + 1 /\ failed' = failed \cup {payload}
            /\ InHand = {payload}
        BY <2>1 DEF CountFailure, ThreadGoto, InHand
      <3>2. payload \notin failed
        BY <3>1 DEF Placed, Apart
      <3>3. QED
        BY <3>1, <3>2, CountedSets, OneMore DEF Counted
    <2>2. CASE ~CountFailure
      <3>1. UNCHANGED <<write_failures, failed>>
        BY <2>2 DEF Thread, Pop, PopEnds, WriteSucceeds, WriteFails, Backoff, FinalFlush
      <3>2. QED
        BY <3>1 DEF Counted
    <2>3. QED
      BY <2>1, <2>2
  <1>4. QED
    BY <1>1, <1>2, <1>3 DEF Counted

LEMMA StepKeepsCounted ==
    ASSUME Typed, Placed, Counted, [Next]_vars
    PROVE  Counted'
  <1>1. ASSUME UNCHANGED <<submitter, stats, fate, evicted, failed>> PROVE Counted'
    <2>1. /\ Uncounted' = Uncounted /\ DropsUncounted' = DropsUncounted
          /\ Admitted' = Admitted /\ Rejected' = Rejected
      BY <1>1 DEF Uncounted, DropsUncounted, Admitted, Rejected, Counting, Dropping, Rejecting, At
    <2>2. QED
      BY <1>1, <2>1 DEF Counted, stats
  <1>2. ASSUME NEW s \in Submitters, NEW p \in Payloads, SubmitBegins(s, p) PROVE Counted'
    BY <1>2, SubmitBeginsCounted
  <1>3. ASSUME NEW s \in Submitters, Submit(s) PROVE Counted'
    BY <1>3, PushCounted, CountCounted DEF Submit
  <1>4. CASE Thread
    BY <1>4, ThreadCounted
  <1>5. CASE Start \/ StopBegins \/ CloseQueue \/ Join \/ Flush
    BY <1>1, <1>5 DEF Start, StopBegins, CloseQueue, Join, Flush, ControlUnchanged, history
  <1>6. CASE UNCHANGED vars
    BY <1>1, <1>6 DEF vars, history
  <1>7. QED
    BY <1>2, <1>3, <1>4, <1>5, <1>6 DEF Next

LEMMA CountedIsStatsAgree == Counted => StatsAgree
  <1> DEFINE CountingAt(S) == {s \in Submitters : submitter[s].step \in S}
             uncounted == {s \in CountingAt({"count_accepted", "count_rejected"}) :
                               submitter[s].dropped_now = 1}
             rejecting == {x \in CountingAt({"count_rejected"}) : submitter[x].dropped_now = 1}
  <1>1. CountingAt({"count_accepted", "count_enqueued"}) = Uncounted
    <2>1. \A s : submitter[s].step \in {"count_accepted", "count_enqueued"} <=> Counting(s)
      BY DEF Counting, At
    <2>2. QED
      BY <2>1 DEF Uncounted
  <1>2. uncounted = DropsUncounted
    <2>1. \A s : Dropping(s) <=> /\ submitter[s].step \in {"count_accepted", "count_rejected"}
                                 /\ submitter[s].dropped_now = 1
      BY DEF Dropping, Rejecting, At
    <2>2. \A s : s \in uncounted <=> s \in Submitters /\ Dropping(s)
      <3>1. \A s : s \in uncounted <=>
                       /\ s \in Submitters
                       /\ submitter[s].step \in {"count_accepted", "count_rejected"}
                       /\ submitter[s].dropped_now = 1
        OBVIOUS
      <3> HIDE DEF uncounted
      <3>2. QED
        BY <2>1, <3>1
    <2>3. \A s : s \in DropsUncounted <=> s \in Submitters /\ Dropping(s)
      BY DEF DropsUncounted
    <2> HIDE DEF uncounted
    <2>4. QED
      BY <2>2, <2>3
  <1>3. rejecting = {x \in Submitters : Rejecting(x)}
    BY DEF Rejecting, At
  <1>4. {p \in Payloads : fate[p] = "dropped"} \cup {submitter[s].payload : s \in rejecting} = Rejected
    BY <1>3 DEF Rejected
  <1> HIDE DEF uncounted, rejecting, CountingAt
  <1>5. QED
    BY <1>1, <1>2, <1>4 DEF Counted, StatsAgree, uncounted, rejecting, CountingAt

\* The statistics of the sink, although they are updated after the queue and
\* one after the other, add up: enqueued counts what submit accepted, dropped
\* what the full queue evicted or rejected, write_failures what was given up.
THEOREM StatisticsAgree == SafeSpec => []StatsAgree
  <1>1. Init => Typed /\ Placed /\ Counted
    BY InitTyped, InitPlaced, InitCounted
  <1>2. Typed /\ Placed /\ Counted /\ [Next]_vars => (Typed /\ Placed /\ Counted)'
    BY StepKeepsTyped, StepKeepsPlaced, StepKeepsCounted
  <1>3. Counted => StatsAgree
    BY CountedIsStatsAgree
  <1>4. QED
    BY <1>1, <1>2, <1>3, PTL DEF SafeSpec

=============================================================================
