------------------------------ MODULE QueueOps ------------------------------
(***************************************************************************)
(* What one completed call of BoundedQueue<T> (telemetry_queue.hpp) does   *)
(* to the queue, as operators on the value of its deque.  The class itself *)
(* is modelled, with its mutex and condition variables, in BoundedQueue;   *)
(* the modules that only use a queue are written with these operators.     *)
(***************************************************************************)
EXTENDS Naturals, Sequences

\* enum class OverflowPolicy.
AllPolicies == {"DropNewest", "DropOldest", "Block"}

\* The constructor turns a requested capacity of zero into one.
MaxSizeOf(capacity) == IF capacity = 0 THEN 1 ELSE capacity

\* A Block push of a full, open queue waits; every other push completes.
PushBlocks(q, closed, policy, maxSize) ==
    ~closed /\ Len(q) >= maxSize /\ policy = "Block"

\* As if the size were compared with > (a mistake no action makes).
PushResult_OffByOne(q, closed, policy, maxSize, v) ==
    LET full == Len(q) > maxSize
        taken == ~closed /\ (~full \/ policy = "DropOldest")
    IN  [items   |-> IF taken THEN Append(IF full THEN Tail(q) ELSE q, v) ELSE q,
         ok      |-> taken,
         dropped |-> IF ~closed /\ full THEN 1 ELSE 0]

\* A push that does not block: the deque afterwards, the returned bool and
\* what it adds to *dropped.
PushResult(q, closed, policy, maxSize, v) ==
    LET full == Len(q) >= maxSize
        taken == ~closed /\ (~full \/ policy = "DropOldest")
    IN  [items   |-> IF taken THEN Append(IF full THEN Tail(q) ELSE q, v) ELSE q,
         ok      |-> taken,
         dropped |-> IF ~closed /\ full THEN 1 ELSE 0]

=============================================================================
