------------------------------ MODULE Summary -------------------------------
(***************************************************************************)
(* Summary (src/telemetry_metrics.cpp): a window of the samples of the     *)
(* last Retention units of time.  observe reads the clock BEFORE it takes  *)
(* the lock, so samples need not be in the order of their timestamps, and  *)
(* evict_locked looks for the first valid one by a binary search, which    *)
(* needs that order.  A sample is its timestamp; its value is left out.    *)
(*                                                                         *)
(* A definition named Op_Something is Op with a mistake in it.  No action  *)
(* uses it: it is there to show that the properties would notice.          *)
(***************************************************************************)
EXTENDS Integers, Sequences

CONSTANTS
    Observers,    \* threads that call observe
    Retention,    \* options.retention
    MaxLateness,  \* the longest time from reading the clock to the lock
    LastTime      \* bound of the clock

VARIABLES
    now,           \* steady_clock
    samples, sample_count,
    reading,       \* the clock as each thread has read it, or None
    evicted,       \* history: the ages of what the last call evicted...
    kept           \* ... and of the samples it kept

vars == <<now, samples, sample_count, reading, evicted, kept>>

None == -1

Init ==
    /\ now = 0
    /\ samples = <<>> /\ sample_count = 0
    /\ reading = [t \in Observers |-> None]
    /\ evicted = {} /\ kept = {}

-----------------------------------------------------------------------------
\* As with std::upper_bound: a sample at the threshold goes, too.
FirstValid_Inclusive(threshold) ==
    {f \in 0 .. Len(samples) :
        /\ f > 0 => samples[f] <= threshold
        /\ f < Len(samples) => samples[f + 1] > threshold}

\* What std::lower_bound may return, as the number of samples before it: the
\* search has seen that the one before is too old and that this one is not.
FirstValid(threshold) ==
    {f \in 0 .. Len(samples) :
        /\ f > 0 => samples[f] < threshold
        /\ f < Len(samples) => samples[f + 1] >= threshold}

\* Ages at this moment of the samples i to j.
Ages(i, j) == {now - samples[k] : k \in i .. j}

\* evict_locked(time), then more samples at the end.
EvictThenAppend(time, more) ==
    \E f \in FirstValid(time - Retention) :
        /\ samples' = SubSeq(samples, f + 1, Len(samples)) \o more
        /\ sample_count' = sample_count - f + Len(more)
        /\ evicted' = Ages(1, f) /\ kept' = Ages(f + 1, Len(samples))

\* observe: the clock...
ReadClock(t) ==
    /\ reading[t] = None
    /\ reading' = [reading EXCEPT ![t] = now]
    /\ UNCHANGED <<now, samples, sample_count, evicted, kept>>

\* ... and the rest, under the lock.
AddSample(t) ==
    /\ reading[t] # None
    /\ EvictThenAppend(reading[t], <<reading[t]>>)
    /\ reading' = [reading EXCEPT ![t] = None]
    /\ UNCHANGED now

\* snapshot, which reads the clock under the lock.
Snapshot == EvictThenAppend(now, <<>>) /\ UNCHANGED <<now, reading>>

Tick ==
    /\ now < LastTime
    /\ \A t \in Observers : reading[t] # None => now - reading[t] < MaxLateness
    /\ now' = now + 1
    /\ UNCHANGED <<samples, sample_count, reading, evicted, kept>>

Next == Tick \/ Snapshot \/ \E t \in Observers : ReadClock(t) \/ AddSample(t)

Spec == Init /\ [][Next]_vars

-----------------------------------------------------------------------------
(* However late the threads come, the count is that of the samples, and no *)
(* call evicts a sample that is more than MaxLateness short of Retention,  *)
(* or keeps one that has outlived it by more: a thread evicts by its own   *)
(* reading, up to MaxLateness old, and the search may err by as much.      *)
RetentionIsKept ==
    /\ sample_count = Len(samples)
    /\ \A age \in evicted : age > Retention - MaxLateness
    /\ \A age \in kept : age <= Retention + 2 * MaxLateness

=============================================================================
