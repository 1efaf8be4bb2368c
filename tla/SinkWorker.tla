----------------------------- MODULE SinkWorker -----------------------------
(***************************************************************************)
(* SinkWorker (src/telemetry_sinks.cpp): the workers of the pipeline       *)
(* submit payloads to the bounded queue of one sink, and the thread of     *)
(* this sink writes them one by one, retrying with exponential backoff,    *)
(* until the queue is closed and empty.                                    *)
(*                                                                         *)
(* The sink itself is outside: a write may deliver or not and may say that *)
(* it failed in both cases (an HTTP answer that never comes, say).  A call *)
(* of the queue is one step, every counter another.                        *)
(*                                                                         *)
(* A definition named Op_Something is Op with a mistake in it.  No action  *)
(* uses it: it is there to show that the properties would notice.          *)
(***************************************************************************)
EXTENDS QueueOps, FiniteSets, Functions

CONSTANTS
    Submitters,      \* threads that call submit
    Payloads,        \* what they submit, each once
    NoPayload,
    Policies,        \* the values overflow_policy may be given
    QueueSize,
    MaxAttempts,     \* retry.max_attempts
    InitialBackoff,  \* retry.initial_backoff
    MaxBackoff       \* retry.max_backoff

ASSUME SinkAssumption ==
    /\ IsFiniteSet(Submitters) /\ IsFiniteSet(Payloads)
    /\ NoPayload \notin Payloads
    /\ Policies \subseteq AllPolicies
    /\ QueueSize \in Nat /\ MaxAttempts \in Nat
    /\ InitialBackoff \in Nat /\ MaxBackoff \in Nat

VARIABLES
    overflow_policy, \* given to the constructor, and never changed
    queue, closed,   \* the queue
    running,         \* std::atomic<bool> running
    submitter,       \* where each submitter is in submit, and with what
    step,            \* where the thread of the sink is
    payload,         \* its payload
    attempt, delay,  \* the locals of write_with_retry
    received,        \* what the other end of the sink got, in order
    flushed,         \* whether the sink was flushed after the last write
    enqueued, dropped, write_failures,  \* SinkWorkerStats
    control,         \* the thread that starts and stops the sink
    fate,            \* history: what submit returned for each payload
    evicted, written, failed, \* history: what became of the accepted ones...
    pushes, rank     \* ... how many there are, and as which each was pushed

queueVars == <<queue, closed>>
retryVars == <<payload, attempt, delay>>
outsideVars == <<received, flushed>>
stats == <<enqueued, dropped, write_failures>>
order == <<pushes, rank>>
history == <<evicted, written, failed, order>>
vars == <<overflow_policy, queueVars, running, submitter, step, retryVars, outsideVars, stats, control, fate, history>>

MaxSize == MaxSizeOf(QueueSize)
EventsIn(s) == {s[i] : i \in DOMAIN s}
Smaller(a, b) == IF a < b THEN a ELSE b
Larger(a, b) == IF a < b THEN b ELSE a

\* std::max(1, retry.max_attempts)
Attempts == IF MaxAttempts < 1 THEN 1 ELSE MaxAttempts

Submission(s, p, n) == [step |-> s, payload |-> p, dropped_now |-> n]
Idle == Submission("idle", NoPayload, 0)

Fates == {"new", "pending", "accepted", "refused", "dropped"}
SubmitterSteps == {"idle", "push", "count_accepted", "count_rejected", "count_enqueued"}
ThreadSteps == {"unborn", "pop", "write", "backoff", "count_failure", "flush", "done"}
ControlSteps == {"created", "started", "closing", "joining", "stopped"}

\* A wait never exceeds both bounds of the backoff, and no attempt is one too
\* many.
SinkTypeOK ==
    /\ overflow_policy \in Policies
    /\ queue \in Seq(Payloads) /\ Len(queue) <= MaxSize
    /\ closed \in BOOLEAN /\ running \in BOOLEAN /\ flushed \in BOOLEAN
    /\ submitter \in [Submitters ->
           [step : SubmitterSteps, payload : Payloads \cup {NoPayload}, dropped_now : {0, 1}]]
    /\ step \in ThreadSteps
    /\ payload \in Payloads \cup {NoPayload}
    /\ attempt \in 0 .. Attempts /\ delay \in 0 .. Larger(InitialBackoff, MaxBackoff)
    /\ received \in Seq(Payloads)
    /\ enqueued \in Nat /\ dropped \in Nat /\ write_failures \in Nat
    /\ control \in ControlSteps
    /\ fate \in [Payloads -> Fates]
    /\ evicted \subseteq Payloads /\ written \subseteq Payloads /\ failed \subseteq Payloads
    /\ pushes \in Nat /\ rank \in [Payloads -> 0 .. pushes]

Init ==
    /\ overflow_policy \in Policies
    /\ queue = <<>> /\ closed = FALSE
    /\ running = FALSE
    /\ submitter = [s \in Submitters |-> Idle]
    /\ step = "unborn"
    /\ payload = NoPayload /\ attempt = 0 /\ delay = 0
    /\ received = <<>> /\ flushed = TRUE
    /\ enqueued = 0 /\ dropped = 0 /\ write_failures = 0
    /\ control = "created"
    /\ fate = [p \in Payloads |-> "new"]
    /\ evicted = {} /\ written = {} /\ failed = {}
    /\ pushes = 0 /\ rank = [p \in Payloads |-> 0]

-----------------------------------------------------------------------------
(* submit, called by s.                                                    *)

SubmitUnchanged == <<overflow_policy, closed, running, step, retryVars, outsideVars, write_failures, control>>

Goto(s, from, to) ==
    /\ submitter[s].step = from
    /\ submitter' = [submitter EXCEPT ![s].step = to]

Return(s, from, f) ==
    /\ submitter[s].step = from
    /\ submitter' = [submitter EXCEPT ![s] = Idle]
    /\ fate' = [fate EXCEPT ![submitter[s].payload] = f]

SubmitBegins(s, p) ==
    /\ submitter[s] = Idle /\ fate[p] = "new"
    /\ submitter' = [submitter EXCEPT ![s] = Submission("push", p, 0)]
    /\ fate' = [fate EXCEPT ![p] = "pending"]
    /\ UNCHANGED <<SubmitUnchanged, queue, enqueued, dropped, history>>

Push(s) ==
    LET p == submitter[s].payload
        r == PushResult(queue, closed, overflow_policy, MaxSize, p)
        next == IF r.ok THEN "count_accepted" ELSE "count_rejected"
    IN  /\ submitter[s].step = "push"
        /\ ~PushBlocks(queue, closed, overflow_policy, MaxSize)
        /\ submitter' = [submitter EXCEPT ![s] = Submission(next, p, r.dropped)]
        /\ queue' = r.items
        /\ evicted' = IF r.ok /\ r.dropped = 1 THEN evicted \cup {Head(queue)} ELSE evicted
        /\ pushes' = IF r.ok THEN pushes + 1 ELSE pushes
        /\ rank' = IF r.ok THEN [rank EXCEPT ![p] = pushes'] ELSE rank
        /\ UNCHANGED <<SubmitUnchanged, enqueued, dropped, written, failed, fate>>

\* dropped.fetch_add(dropped_now); a refusal by a closed queue adds nothing.
CountRejected(s) ==
    /\ Return(s, "count_rejected", IF submitter[s].dropped_now = 1 THEN "dropped" ELSE "refused")
    /\ dropped' = dropped + submitter[s].dropped_now
    /\ UNCHANGED <<SubmitUnchanged, queue, enqueued, history>>

CountAccepted_NoEvictions(s) ==
    /\ Goto(s, "count_accepted", "count_enqueued")
    /\ UNCHANGED <<SubmitUnchanged, queue, enqueued, dropped, fate, history>>

CountAccepted(s) ==
    /\ Goto(s, "count_accepted", "count_enqueued")
    /\ dropped' = dropped + submitter[s].dropped_now
    /\ UNCHANGED <<SubmitUnchanged, queue, enqueued, fate, history>>

CountEnqueued(s) ==
    /\ Return(s, "count_enqueued", "accepted")
    /\ enqueued' = enqueued + 1
    /\ UNCHANGED <<SubmitUnchanged, queue, dropped, history>>

Submit(s) == Push(s) \/ CountRejected(s) \/ CountAccepted(s) \/ CountEnqueued(s)

-----------------------------------------------------------------------------
(* The thread of the sink.                                                 *)

ThreadUnchanged ==
    <<overflow_policy, closed, running, submitter, enqueued, dropped, control, fate, evicted, order>>

ThreadGoto(from, to) == step = from /\ step' = to

PopFront_Peeks == payload' = Head(queue) /\ UNCHANGED queue

PopFront_Back ==
    /\ payload' = queue[Len(queue)]
    /\ queue' = SubSeq(queue, 1, Len(queue) - 1)

PopFront == payload' = Head(queue) /\ queue' = Tail(queue)

\* queue.pop, which waits for a payload or for the end; then write_with_retry.
Pop ==
    /\ ThreadGoto("pop", "write")
    /\ queue # <<>>
    /\ PopFront
    /\ attempt' = 1 /\ delay' = InitialBackoff
    /\ UNCHANGED <<ThreadUnchanged, outsideVars, write_failures, written, failed>>

PopEnds_OnClose ==
    /\ ThreadGoto("pop", "flush")
    /\ closed
    /\ UNCHANGED <<ThreadUnchanged, queue, retryVars, outsideVars, write_failures, written, failed>>

PopEnds ==
    /\ ThreadGoto("pop", "flush")
    /\ closed /\ queue = <<>>
    /\ UNCHANGED <<ThreadUnchanged, queue, retryVars, outsideVars, write_failures, written, failed>>

\* The other end gets the payload.
Deliver == received' = Append(received, payload) /\ flushed' = FALSE

WriteSucceeds ==
    /\ ThreadGoto("write", "pop")
    /\ Deliver
    /\ written' = written \cup {payload}
    /\ UNCHANGED <<ThreadUnchanged, queue, retryVars, write_failures, failed>>

\* sink->write returns false, whether or not the payload got through.
FailedWrite == Deliver \/ UNCHANGED outsideVars

WriteFails ==
    /\ ThreadGoto("write", IF attempt < Attempts THEN "backoff" ELSE "count_failure")
    /\ FailedWrite
    /\ UNCHANGED <<ThreadUnchanged, queue, retryVars, write_failures, written, failed>>

Backoff_Uncapped ==
    /\ ThreadGoto("backoff", "write")
    /\ attempt' = attempt + 1
    /\ delay' = delay * 2
    /\ UNCHANGED <<ThreadUnchanged, queue, payload, outsideVars, write_failures, written, failed>>

\* sleep_for(delay), then the next attempt.
Backoff ==
    /\ ThreadGoto("backoff", "write")
    /\ attempt' = attempt + 1
    /\ delay' = Smaller(delay * 2, MaxBackoff)
    /\ UNCHANGED <<ThreadUnchanged, queue, payload, outsideVars, write_failures, written, failed>>

CountFailure_Exits ==
    /\ ThreadGoto("count_failure", "flush")
    /\ write_failures' = write_failures + 1
    /\ failed' = failed \cup {payload}
    /\ UNCHANGED <<ThreadUnchanged, queue, retryVars, outsideVars, written>>

CountFailure ==
    /\ ThreadGoto("count_failure", "pop")
    /\ write_failures' = write_failures + 1
    /\ failed' = failed \cup {payload}
    /\ UNCHANGED <<ThreadUnchanged, queue, retryVars, outsideVars, written>>

FinalFlush ==
    /\ ThreadGoto("flush", "done")
    /\ flushed' = TRUE
    /\ UNCHANGED <<ThreadUnchanged, queue, retryVars, received, write_failures, written, failed>>

Thread ==
    \/ Pop \/ PopEnds \/ WriteSucceeds \/ WriteFails \/ Backoff \/ CountFailure \/ FinalFlush

-----------------------------------------------------------------------------
(* start, stop and flush.                                                  *)

ControlUnchanged == <<overflow_policy, queue, submitter, retryVars, stats, fate, history>>

Control(from, to) == control \in from /\ control' = to

\* A sink that is started again has a closed queue: its thread only flushes.
Start ==
    /\ Control({"created", "stopped"}, "started")
    /\ running' = TRUE /\ step' = "pop"
    /\ UNCHANGED <<ControlUnchanged, closed, outsideVars>>

\* stop: running.exchange(false)...
StopBegins ==
    /\ Control({"started"}, "closing")
    /\ running' = FALSE
    /\ UNCHANGED <<ControlUnchanged, closed, step, outsideVars>>

CloseQueue_Forgotten ==
    /\ Control({"closing"}, "joining")
    /\ UNCHANGED <<ControlUnchanged, closed, running, step, outsideVars>>

\* ... queue.close()...
CloseQueue ==
    /\ Control({"closing"}, "joining")
    /\ closed' = TRUE
    /\ UNCHANGED <<ControlUnchanged, running, step, outsideVars>>

\* ... worker.join().
Join ==
    /\ Control({"joining"}, "stopped")
    /\ step = "done"
    /\ UNCHANGED <<ControlUnchanged, closed, running, step, outsideVars>>

\* flush may be called at any time, by any thread.
Flush ==
    /\ flushed' = TRUE
    /\ UNCHANGED <<ControlUnchanged, closed, running, step, received, control>>

-----------------------------------------------------------------------------
Next ==
    \/ \E s \in Submitters, p \in Payloads : SubmitBegins(s, p)
    \/ \E s \in Submitters : Submit(s)
    \/ Thread
    \/ Start \/ StopBegins \/ CloseQueue \/ Join \/ Flush

SafeSpec == Init /\ [][Next]_vars

\* Every thread that can run does, a sink->write returns, a sleep ends, and a
\* stop that has begun goes on.  Nobody has to submit, start, stop or flush.
Fairness ==
    /\ \A s \in Submitters : WF_vars(Submit(s))
    /\ WF_vars(Thread)
    /\ WF_vars(CloseQueue \/ Join)

Spec == SafeSpec /\ Fairness

-----------------------------------------------------------------------------
\* The payloads whose push succeeded.
Admitted ==
    {p \in Payloads : fate[p] = "accepted"} \cup
    {submitter[s].payload : s \in
        {x \in Submitters : submitter[x].step \in {"count_accepted", "count_enqueued"}}}

InHand == IF step \in {"write", "backoff", "count_failure"} THEN {payload} ELSE {}

(* Every payload a push admitted is in exactly one place: in the queue, in *)
(* the thread's hand, evicted, written, or given up after the attempts.    *)
EachInOnePlace ==
    LET places == <<EventsIn(queue), InHand, evicted, written, failed>>
    IN  /\ Admitted = UNION EventsIn(places)
        /\ \A i, j \in DOMAIN places : i # j => places[i] \cap places[j] = {}
        /\ IsInjective(queue)

(* The statistics count each of them: what submit accepted, what the full  *)
(* queue dropped (evicted or rejected, but not refused after close) and    *)
(* what was given up, except for what is being counted.                    *)
StatsAgree ==
    LET CountingAt(S) == {s \in Submitters : submitter[s].step \in S}
        uncounted == {s \in CountingAt({"count_accepted", "count_rejected"}) :
                          submitter[s].dropped_now = 1}
        rejected == {p \in Payloads : fate[p] = "dropped"} \cup
                    {submitter[s].payload : s \in
                        {x \in CountingAt({"count_rejected"}) : submitter[x].dropped_now = 1}}
    IN  /\ enqueued + Cardinality(CountingAt({"count_accepted", "count_enqueued"}))
               = Cardinality(Admitted)
        /\ dropped + Cardinality(uncounted) = Cardinality(evicted) + Cardinality(rejected)
        /\ write_failures = Cardinality(failed)

(* The other end gets the payloads in the order in which they were pushed, *)
(* whatever is evicted, retried or given up between them, and the same one *)
(* again only while it is being retried, once per attempt at most.         *)
ReceivedInOrder ==
    /\ \A i, j \in DOMAIN received : i < j => rank[received[i]] <= rank[received[j]]
    /\ \A p \in Payloads : Cardinality({i \in DOMAIN received : received[i] = p}) <= Attempts

(* When stop returns, the queue is empty, every admitted payload has been  *)
(* written, evicted or given up, and the sink has been flushed since.      *)
StopWritesAll ==
    control = "stopped" =>
        /\ Admitted = evicted \cup written \cup failed
        /\ queue = <<>>
        /\ flushed

(* stop returns: a sink that fails only delays it by its attempts.         *)
StopReturns == control = "closing" ~> control = "stopped"

(* An accepted payload is written, given up or evicted once the sink runs. *)
AcceptedIsSettled ==
    \A p \in Payloads :
        control # "created" /\ fate[p] = "accepted" ~> p \in evicted \cup written \cup failed

=============================================================================
