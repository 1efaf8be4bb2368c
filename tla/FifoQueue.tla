----------------------------- MODULE FifoQueue ------------------------------
(***************************************************************************)
(* What BoundedQueue<T> promises its callers: a bounded first-in first-out *)
(* queue on which every call takes effect in one atomic step, at some      *)
(* instant between the call and its return, and on which no call waits     *)
(* for ever while the queue would let it proceed.  There is no mutex and   *)
(* no condition variable here.                                             *)
(***************************************************************************)
EXTENDS QueueInterface

VARIABLES
    items,   \* the deque
    closed,  \* the flag set by close
    call,    \* call[t] is the call thread t is inside of, or NoCall
    ret      \* ret[t] is what the last call of thread t returned

vars == <<items, closed, call, ret>>

Init ==
    /\ items = <<>>
    /\ closed = FALSE
    /\ call = [t \in Threads |-> NoCall]
    /\ ret = [t \in Threads |-> NoResult]

Begin(t, c) ==
    /\ call[t] = NoCall
    /\ call' = [call EXCEPT ![t] = c]
    /\ ret' = [ret EXCEPT ![t] = NoResult]
    /\ UNCHANGED <<items, closed>>

Return(t, r) ==
    /\ call' = [call EXCEPT ![t] = NoCall]
    /\ ret' = [ret EXCEPT ![t] = r]

Push(t) ==
    /\ call[t].op = "try_push"
    /\ ~PushBlocks(items, closed, call[t].policy, MaxSize)
    /\ LET r == PushResult(items, closed, call[t].policy, MaxSize, call[t].value)
       IN  /\ items' = r.items
           /\ Return(t, Returned(r.ok, r.dropped, NoValue))
    /\ UNCHANGED closed

Take(t) ==
    /\ call[t].op \in {"pop", "pop_for"}
    /\ items # <<>>
    /\ items' = Tail(items)
    /\ Return(t, Returned(TRUE, 0, Head(items)))
    /\ UNCHANGED closed

\* Nothing to take: a pop gives up only on a closed queue, a pop_for also
\* when its time is over.
GiveUp(t) ==
    /\ \/ call[t].op = "pop" /\ closed
       \/ call[t].op = "pop_for"
    /\ items = <<>>
    /\ Return(t, Returned(FALSE, 0, NoValue))
    /\ UNCHANGED <<items, closed>>

SetClosed(t) ==
    /\ call[t].op = "close"
    /\ closed' = TRUE
    /\ call' = [call EXCEPT ![t] = CloseCall("closing")]
    /\ UNCHANGED <<items, ret>>

EndClose(t) ==
    /\ call[t].op = "closing"
    /\ Return(t, Returned(TRUE, 0, NoValue))
    /\ UNCHANGED <<items, closed>>

Effect(t) == Push(t) \/ Take(t) \/ GiveUp(t) \/ SetClosed(t) \/ EndClose(t)

Next ==
    \/ \E t \in Pushers, v \in Values, p \in OverflowPolicies : Begin(t, PushCall(v, p))
    \/ \E t \in Poppers, op \in {"pop", "pop_for"} : Begin(t, PopCall(op))
    \/ \E t \in Closers : Begin(t, CloseCall("close"))
    \/ \E t \in Threads : Effect(t)

SafeSpec == Init /\ [][Next]_vars

\* No call that could take effect for ever is left waiting.
Spec == SafeSpec /\ \A t \in Threads : WF_vars(Effect(t))

=============================================================================
