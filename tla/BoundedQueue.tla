---------------------------- MODULE BoundedQueue ----------------------------
(***************************************************************************)
(* BoundedQueue<T> (include/telemetry_queue.hpp): a deque, a flag, one     *)
(* mutex and two condition variables, used by any number of threads.       *)
(*                                                                         *)
(* A critical section is one step: it holds mtx from its lock to its       *)
(* return, or to a wait, which gives the mutex back and joins the waiters  *)
(* of the condition variable in one atomic act.  A thread that has left a  *)
(* wait (notified, timed out or woken for no reason) has still to get the  *)
(* mutex and to look at the predicate again: it is in pushWoken or         *)
(* popWoken until it does, and any other thread can be served before it.   *)
(* close is three steps, because it notifies after it has unlocked.        *)
(***************************************************************************)
EXTENDS QueueInterface

VARIABLES
    items,      \* std::deque<T> items
    closed,     \* bool closed
    not_empty,  \* the threads blocked on the condition variable not_empty
    not_full,   \* the threads blocked on the condition variable not_full
    popWoken,   \* the threads that left a wait on not_empty, without mtx yet
    pushWoken,  \* the threads that left a wait on not_full, without mtx yet
    call,       \* the call each thread is inside of
    ret         \* what the last call of each thread returned

vars == <<items, closed, not_empty, not_full, popWoken, pushWoken, call, ret>>
conds == <<not_empty, not_full, popWoken, pushWoken>>

\* pop_for is "expired" once its time is over; close goes through its steps.
Calls ==
    {PushCall(v, p) : v \in Values, p \in OverflowPolicies}
    \cup {PopCall(op) : op \in {"pop", "pop_for", "pop_for_expired"}}
    \cup {CloseCall(op) : op \in {"close", "notify_not_empty", "notify_not_full"}}
    \cup {NoCall}

Results == [ok : BOOLEAN, dropped : {0, 1}, value : Values \cup {NoValue}]

TypeOK ==
    /\ items \in Seq(Values)
    /\ Len(items) <= MaxSize
    /\ closed \in BOOLEAN
    /\ not_empty \subseteq Threads /\ popWoken \subseteq Threads \ not_empty
    /\ not_full \subseteq Threads /\ pushWoken \subseteq Threads \ not_full
    /\ call \in [Threads -> Calls]
    /\ ret \in [Threads -> Results]

Init ==
    /\ items = <<>>
    /\ closed = FALSE
    /\ not_empty = {} /\ popWoken = {}
    /\ not_full = {} /\ pushWoken = {}
    /\ call = [t \in Threads |-> NoCall]
    /\ ret = [t \in Threads |-> NoResult]

Begin(t, c) ==
    /\ call[t] = NoCall
    /\ call' = [call EXCEPT ![t] = c]
    /\ ret' = [ret EXCEPT ![t] = NoResult]
    /\ UNCHANGED <<items, closed, conds>>

Return(t, r) ==
    /\ call' = [call EXCEPT ![t] = NoCall]
    /\ ret' = [ret EXCEPT ![t] = r]

-----------------------------------------------------------------------------
(* notify_one: some waiter, if there is one, stops waiting.                *)
(*                                                                         *)
(* A definition named Op_Something is Op with a mistake in it.  No action  *)
(* uses it: it is there to show that the properties would notice.          *)

NotifyNotEmpty_Forgotten == UNCHANGED <<not_empty, popWoken>>

NotifyNotEmpty ==
    \/ not_empty = {} /\ UNCHANGED <<not_empty, popWoken>>
    \/ \E w \in not_empty :
           /\ not_empty' = not_empty \ {w}
           /\ popWoken' = popWoken \cup {w}

NotifyNotFull_Forgotten == UNCHANGED <<not_full, pushWoken>>

NotifyNotFull ==
    \/ not_full = {} /\ UNCHANGED <<not_full, pushWoken>>
    \/ \E w \in not_full :
           /\ not_full' = not_full \ {w}
           /\ pushWoken' = pushWoken \cup {w}

-----------------------------------------------------------------------------
(* try_push.  These are the critical sections of a thread that enters with *)
(* the call or comes back from a wait on not_full: `closed' and the size   *)
(* decide in the same way in both cases.                                   *)

Pushing(t) ==
    /\ call[t].op = "try_push"
    /\ t \notin not_full

Full_OffByOne == Len(items) > MaxSize

Full == Len(items) >= MaxSize

PushRefused(t) ==
    /\ Pushing(t)
    /\ closed
    /\ Return(t, Returned(FALSE, 0, NoValue))
    /\ pushWoken' = pushWoken \ {t}
    /\ UNCHANGED <<items, closed, not_empty, not_full, popWoken>>

PushDropsNewest(t) ==
    /\ Pushing(t)
    /\ ~closed /\ Full /\ call[t].policy = "DropNewest"
    /\ Return(t, Returned(FALSE, 1, NoValue))
    /\ UNCHANGED <<items, closed, conds>>

\* items.emplace_back(value), not_empty.notify_one(), return true.
EmplaceBack(t, q, dropped) ==
    /\ items' = Append(q, call[t].value)
    /\ NotifyNotEmpty
    /\ Return(t, Returned(TRUE, dropped, NoValue))
    /\ pushWoken' = pushWoken \ {t}
    /\ UNCHANGED <<closed, not_full>>

PushDropsOldest(t) ==
    /\ Pushing(t)
    /\ ~closed /\ Full /\ call[t].policy = "DropOldest"
    /\ EmplaceBack(t, Tail(items), 1)

\* As if closed were not looked at again after the wait.
PushAppends_AfterClose(t) ==
    /\ Pushing(t)
    /\ ~closed \/ t \in pushWoken
    /\ ~Full
    /\ EmplaceBack(t, items, 0)

PushAppends(t) ==
    /\ Pushing(t)
    /\ ~closed /\ ~Full
    /\ EmplaceBack(t, items, 0)

PushWaits(t) ==
    /\ Pushing(t)
    /\ ~closed /\ Full /\ call[t].policy = "Block"
    /\ not_full' = not_full \cup {t}
    /\ pushWoken' = pushWoken \ {t}
    /\ UNCHANGED <<items, closed, not_empty, popWoken, call, ret>>

TryPush(t) ==
    \/ PushRefused(t) \/ PushDropsNewest(t) \/ PushDropsOldest(t)
    \/ PushAppends(t) \/ PushWaits(t)

-----------------------------------------------------------------------------
(* pop and pop_for: again a thread that enters or comes back from a wait.  *)
(* A pop_for whose time is over looks at the predicate one last time.      *)

Popping(t) ==
    /\ call[t].op \in {"pop", "pop_for", "pop_for_expired"}
    /\ t \notin not_empty

PopTakes(t) ==
    /\ Popping(t)
    /\ items # <<>>
    /\ items' = Tail(items)
    /\ NotifyNotFull
    /\ Return(t, Returned(TRUE, 0, Head(items)))
    /\ popWoken' = popWoken \ {t}
    /\ UNCHANGED <<closed, not_empty>>

PopGivesUp(t) ==
    /\ Popping(t)
    /\ items = <<>>
    /\ closed \/ call[t].op = "pop_for_expired"
    /\ Return(t, Returned(FALSE, 0, NoValue))
    /\ popWoken' = popWoken \ {t}
    /\ UNCHANGED <<items, closed, not_empty, not_full, pushWoken>>

PopWaits(t) ==
    /\ Popping(t)
    /\ items = <<>> /\ ~closed
    /\ call[t].op \in {"pop", "pop_for"}
    /\ not_empty' = not_empty \cup {t}
    /\ popWoken' = popWoken \ {t}
    /\ UNCHANGED <<items, closed, not_full, pushWoken, call, ret>>

Pop(t) == PopTakes(t) \/ PopGivesUp(t) \/ PopWaits(t)

\* The deadline of wait_for passes while the thread is blocked.
Expire(t) ==
    /\ t \in not_empty /\ call[t].op = "pop_for"
    /\ not_empty' = not_empty \ {t}
    /\ popWoken' = popWoken \cup {t}
    /\ call' = [call EXCEPT ![t] = PopCall("pop_for_expired")]
    /\ UNCHANGED <<items, closed, not_full, pushWoken, ret>>

\* A wait may also end for no reason.
SpuriousWake(t) ==
    /\ t \in not_empty \cup not_full
    /\ not_empty' = not_empty \ {t} /\ popWoken' = popWoken \cup (not_empty \cap {t})
    /\ not_full' = not_full \ {t} /\ pushWoken' = pushWoken \cup (not_full \cap {t})
    /\ UNCHANGED <<items, closed, call, ret>>

-----------------------------------------------------------------------------
(* close: the flag under the mutex, then the two notifications without it. *)

CloseSets(t) ==
    /\ call[t].op = "close"
    /\ closed' = TRUE
    /\ call' = [call EXCEPT ![t] = CloseCall("notify_not_empty")]
    /\ UNCHANGED <<items, conds, ret>>

CloseNotifiesNotEmpty(t) ==
    /\ call[t].op = "notify_not_empty"
    /\ not_empty' = {} /\ popWoken' = popWoken \cup not_empty
    /\ call' = [call EXCEPT ![t] = CloseCall("notify_not_full")]
    /\ UNCHANGED <<items, closed, not_full, pushWoken, ret>>

\* As if close woke one blocked pusher instead of all.
CloseNotifiesNotFull_One(t) ==
    /\ call[t].op = "notify_not_full"
    /\ NotifyNotFull
    /\ Return(t, Returned(TRUE, 0, NoValue))
    /\ UNCHANGED <<items, closed, not_empty, popWoken>>

CloseNotifiesNotFull(t) ==
    /\ call[t].op = "notify_not_full"
    /\ not_full' = {} /\ pushWoken' = pushWoken \cup not_full
    /\ Return(t, Returned(TRUE, 0, NoValue))
    /\ UNCHANGED <<items, closed, not_empty, popWoken>>

Close(t) == CloseSets(t) \/ CloseNotifiesNotEmpty(t) \/ CloseNotifiesNotFull(t)

-----------------------------------------------------------------------------
Step(t) == TryPush(t) \/ Pop(t) \/ Close(t)

Next ==
    \/ \E t \in Pushers, v \in Values, p \in OverflowPolicies : Begin(t, PushCall(v, p))
    \/ \E t \in Poppers, op \in {"pop", "pop_for"} : Begin(t, PopCall(op))
    \/ \E t \in Closers : Begin(t, CloseCall("close"))
    \/ \E t \in Threads : Step(t) \/ Expire(t) \/ SpuriousWake(t)

SafeSpec == Init /\ [][Next]_vars

\* A runnable thread gets the mutex in the end, and a deadline, which is one
\* point in time for all the waits of a call, passes in the end.  Nothing
\* makes a thread call, and nothing is owed a spurious wakeup.
Fairness == \A t \in Threads : WF_vars(Step(t)) /\ SF_vars(Expire(t))

Spec == SafeSpec /\ Fairness

-----------------------------------------------------------------------------
(* No item is in an open queue without a popper on its way to it for as    *)
(* long as poppers are blocked, whatever way the wakeups, the timeouts and *)
(* calls that never waited interleave with the notify_one of try_push.     *)
NoLostItem ==
    not_empty # {} /\ ~closed => Len(items) <= Cardinality(popWoken)

(* The same of free places, blocked pushers and the notify_one of pop.     *)
NoLostPlace ==
    not_full # {} /\ ~closed => MaxSize - Len(items) <= Cardinality(pushWoken)

(* A thread blocked on a closed queue is one that the notify_all of a      *)
(* close still in progress will reach: nobody goes to sleep after it.      *)
NoSleeperAfterClose ==
    closed =>
        /\ not_empty # {} => \E k \in Threads : call[k].op = "notify_not_empty"
        /\ not_full # {} =>
               \E k \in Threads : call[k].op \in {"notify_not_empty", "notify_not_full"}

(* Poppers and pushers are never all asleep waiting for each other: two    *)
(* condition variables and notify_one are enough for any mix of threads.   *)
NoMutualWait ==
    ~closed /\ not_empty # {} /\ not_full # {} => popWoken \cup pushWoken # {}

-----------------------------------------------------------------------------
(* The queue its callers see: notifying is the end of a close, and a       *)
(* timeout that has fired changes nothing yet.                             *)
SeenAs(c) ==
    IF c.op \in {"notify_not_empty", "notify_not_full"} THEN CloseCall("closing")
    ELSE IF c.op = "pop_for_expired" THEN PopCall("pop_for")
    ELSE c

absCall == [t \in Threads |-> SeenAs(call[t])]

Abs == INSTANCE FifoQueue WITH call <- absCall

(* Every call takes effect at one instant, in first-in first-out order,    *)
(* with the result and the drop count of FifoQueue.                        *)
Linearizable == Abs!SafeSpec

(* No call sleeps for ever while the queue would let it proceed: blocked   *)
(* poppers get the items, blocked pushers the places, close releases all.  *)
ImplementsFifoQueue == Abs!Spec

=============================================================================
