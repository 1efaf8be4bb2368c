--------------------------- MODULE QueueInterface ---------------------------
(***************************************************************************)
(* The calls threads make on one BoundedQueue and the results they get:    *)
(* the vocabulary shared by the detailed model of the class, BoundedQueue, *)
(* and by what the class promises, FifoQueue.                              *)
(***************************************************************************)
EXTENDS QueueOps, FiniteSets

CONSTANTS
    Pushers,            \* threads that call try_push
    Poppers,            \* threads that call pop or pop_for
    Closers,            \* threads that call close
    Values,             \* the items pushed
    NoValue,            \* the content of a T that holds no item
    OverflowPolicies,   \* the policies passed to try_push
    RequestedCapacity   \* the constructor's argument

Threads == Pushers \cup Poppers \cup Closers

ASSUME QueueAssumption ==
    /\ IsFiniteSet(Threads)
    /\ NoValue \notin Values
    /\ OverflowPolicies \subseteq AllPolicies
    /\ RequestedCapacity \in Nat

MaxSize == MaxSizeOf(RequestedCapacity)

\* A call in progress: the operation and its arguments.
PushCall(v, p) == [op |-> "try_push", value |-> v, policy |-> p]
PopCall(op) == [op |-> op, value |-> NoValue, policy |-> "none"]
CloseCall(op) == [op |-> op, value |-> NoValue, policy |-> "none"]
NoCall == [op |-> "none", value |-> NoValue, policy |-> "none"]

\* What the last call of a thread returned.
Returned(ok, dropped, v) == [ok |-> ok, dropped |-> dropped, value |-> v]
NoResult == Returned(FALSE, 0, NoValue)

=============================================================================
