----------------------------- MODULE StreamHub ------------------------------
(***************************************************************************)
(* TelemetryStreamHub (src/telemetry_pipeline.cpp) and the route           *)
(* /telemetry/live that reads from it (src/telemetry_monitoring.cpp).      *)
(* Workers publish payloads, one per batch, to every subscription; each    *)
(* client that connects gets a subscription with a queue of its own, from  *)
(* which the server thread of the connection feeds the client.             *)
(*                                                                         *)
(* The hub only knows its subscriptions by weak pointers.  The connection  *)
(* owns the subscription; publish owns it while it pushes.  Calls of a     *)
(* subscription's queue are single steps, which BoundedQueue justifies.    *)
(* Each client connects once.  A payload is named by its rank: the n-th    *)
(* publish to lock the hub publishes payload n.                            *)
(***************************************************************************)
EXTENDS QueueOps, FiniteSets, Functions, SequencesExt

CONSTANTS
    Publishers,        \* the workers of the pipeline
    Clients,           \* connections to /telemetry/live, and their subscriptions
    MaxPayloads,       \* bound: how often the workers publish
    SubscriptionSize   \* subscription_queue_size

ASSUME StreamHubAssumption ==
    /\ MaxPayloads \in Nat
    /\ SubscriptionSize \in Nat

VARIABLES
    subscriptions,  \* the clients of the hub's weak pointers, in order
    publisher,      \* where each publisher is in publish, with what
    client,         \* where the server thread of each connection is
    hand,           \* what that thread has popped and not written
    queue,          \* the items of each subscription's queue
    closed,         \* Subscription::close was called
    received,       \* what was written to each client
    published,      \* the number of publishes that have locked the hub
    joined          \* history: how many were published when a client subscribed

hubVars == <<subscriptions, publisher, published>>
clientVars == <<client, hand, received, joined>>
vars == <<hubVars, clientVars, queue, closed>>

MaxSize == MaxSizeOf(SubscriptionSize)
Payloads == 1 .. MaxPayloads

\* at: the position of the iterator; holds: the subscription it has a pointer
\* to; dead: history, the subscriptions that had expired before the call.
Publishing(m, dead) ==
    [step |-> "visit", payload |-> m, at |-> 1, holds |-> {}, dead |-> dead]
NotPublishing == [Publishing(0, {}) EXCEPT !.step = "idle"]

ClientSteps == {"away", "streaming", "writing", "leaving", "closed", "gone"}

\* No iterator goes past the end of the subscriptions, whatever is erased.
TypeOK ==
    /\ subscriptions \in Seq(Clients) /\ IsInjective(subscriptions)
    /\ publisher \in [Publishers ->
           [step : {"idle", "visit", "push"}, payload : 0 .. MaxPayloads, at : Nat,
            holds : SUBSET Clients, dead : SUBSET Clients]]
    /\ \A p \in Publishers : publisher[p].at \in 1 .. Len(subscriptions) + 1
    /\ client \in [Clients -> ClientSteps]
    /\ hand \in [Clients -> Seq(Payloads)]
    /\ queue \in [Clients -> Seq(Payloads)] /\ \A c \in Clients : Len(queue[c]) <= MaxSize
    /\ closed \in [Clients -> BOOLEAN]
    /\ received \in [Clients -> Seq(Payloads)]
    /\ published \in 0 .. MaxPayloads
    /\ joined \in [Clients -> 0 .. MaxPayloads]

Init ==
    /\ subscriptions = <<>>
    /\ publisher = [p \in Publishers |-> NotPublishing]
    /\ client = [c \in Clients |-> "away"]
    /\ hand = [c \in Clients |-> <<>>]
    /\ queue = [c \in Clients |-> <<>>]
    /\ closed = [c \in Clients |-> FALSE]
    /\ received = [c \in Clients |-> <<>>]
    /\ published = 0
    /\ joined = [c \in Clients |-> 0]

-----------------------------------------------------------------------------
(* publish, called by worker p: under the hub's mutex from beginning to    *)
(* end.                                                                    *)

HubFree == \A p \in Publishers : publisher[p].step = "idle"

\* Nobody has a pointer to the subscription of c.
Expired(c) == client[c] = "gone" /\ \A p \in Publishers : c \notin publisher[p].holds

HubIsFree_Unlocked(p) == publisher[p].step = "idle"

\* What p waits for when it locks the mutex.
HubIsFree(p) == HubFree

Begin(p) ==
    /\ HubIsFree(p)
    /\ published < MaxPayloads
    /\ published' = published + 1
    /\ publisher' = [publisher EXCEPT ![p] =
           Publishing(published', {c \in Range(subscriptions) : Expired(c)})]
    /\ UNCHANGED <<subscriptions, clientVars, queue, closed>>

Current(p) == subscriptions[publisher[p].at]
Visiting(p) == publisher[p].step = "visit" /\ publisher[p].at <= Len(subscriptions)

\* it->lock() gives a pointer: the subscription lives until it is dropped.
Lock(p) ==
    /\ Visiting(p)
    /\ ~Expired(Current(p))
    /\ publisher' = [publisher EXCEPT ![p].step = "push", ![p].holds = {Current(p)}]
    /\ UNCHANGED <<subscriptions, published, clientVars, queue, closed>>

Erase_SkipsNext(p) ==
    /\ Visiting(p)
    /\ Expired(Current(p))
    /\ subscriptions' = RemoveAt(subscriptions, publisher[p].at)
    /\ publisher' = [publisher EXCEPT ![p].at = @ + 1]
    /\ UNCHANGED <<published, clientVars, queue, closed>>

Erase_Forgotten(p) ==
    /\ Visiting(p)
    /\ Expired(Current(p))
    /\ publisher' = [publisher EXCEPT ![p].at = @ + 1]
    /\ UNCHANGED <<subscriptions, published, clientVars, queue, closed>>

\* It gives none: the entry is erased, and the next one takes its position.
Erase(p) ==
    /\ Visiting(p)
    /\ Expired(Current(p))
    /\ subscriptions' = RemoveAt(subscriptions, publisher[p].at)
    /\ UNCHANGED <<publisher, published, clientVars, queue, closed>>

\* As if a full subscription made the worker wait.
Push_Blocks(p) ==
    \E c \in publisher[p].holds :
        /\ publisher[p].step = "push"
        /\ ~PushBlocks(queue[c], closed[c], "Block", MaxSize)
        /\ queue' = [queue EXCEPT ![c] =
               PushResult(@, closed[c], "Block", MaxSize, publisher[p].payload).items]
        /\ publisher' = [publisher EXCEPT ![p].step = "visit", ![p].at = @ + 1, ![p].holds = {}]
        /\ UNCHANGED <<subscriptions, published, clientVars, closed>>

\* try_push under DropOldest, then ++it: a client that is slow loses the
\* oldest payload, one that has left meanwhile takes none.
Push(p) ==
    \E c \in publisher[p].holds :
        /\ publisher[p].step = "push"
        /\ queue' = [queue EXCEPT ![c] =
               PushResult(@, closed[c], "DropOldest", MaxSize, publisher[p].payload).items]
        /\ publisher' = [publisher EXCEPT ![p].step = "visit", ![p].at = @ + 1, ![p].holds = {}]
        /\ UNCHANGED <<subscriptions, published, clientVars, closed>>

End(p) ==
    /\ publisher[p].step = "visit" /\ publisher[p].at > Len(subscriptions)
    /\ publisher' = [publisher EXCEPT ![p] = NotPublishing]
    /\ UNCHANGED <<subscriptions, published, clientVars, queue, closed>>

Publish(p) == Lock(p) \/ Erase(p) \/ Push(p) \/ End(p)

-----------------------------------------------------------------------------
(* The server thread of client c.                                          *)

ClientGoto(c, from, to) == client[c] = from /\ client' = [client EXCEPT ![c] = to]

\* subscribe locks the hub as publish does.
Subscribe(c) ==
    /\ HubFree
    /\ ClientGoto(c, "away", "streaming")
    /\ subscriptions' = Append(subscriptions, c)
    /\ joined' = [joined EXCEPT ![c] = published]
    /\ UNCHANGED <<publisher, published, hand, received, queue, closed>>

\* pop_for gives a payload...
Pop(c) ==
    /\ ClientGoto(c, "streaming", "writing")
    /\ queue[c] # <<>>
    /\ hand' = [hand EXCEPT ![c] = <<Head(queue[c])>>]
    /\ queue' = [queue EXCEPT ![c] = Tail(@)]
    /\ UNCHANGED <<hubVars, received, joined, closed>>

\* ... or none for 15 seconds, and a heartbeat is written.
Heartbeat(c) ==
    /\ ClientGoto(c, "streaming", "writing")
    /\ queue[c] = <<>>
    /\ UNCHANGED <<hubVars, hand, received, joined, queue, closed>>

Write(c) ==
    /\ ClientGoto(c, "writing", "streaming")
    /\ received' = [received EXCEPT ![c] = @ \o hand[c]]
    /\ hand' = [hand EXCEPT ![c] = <<>>]
    /\ UNCHANGED <<hubVars, joined, queue, closed>>

\* The client is gone, or the server stops: sink.write returns false, or the
\* server does not call the provider again.
Leave(c) ==
    /\ client[c] \in {"streaming", "writing"}
    /\ client' = [client EXCEPT ![c] = "leaving"]
    /\ UNCHANGED <<hubVars, hand, received, joined, queue, closed>>

\* The releaser of the response calls close...
Close(c) ==
    /\ ClientGoto(c, "leaving", "closed")
    /\ closed' = [closed EXCEPT ![c] = TRUE]
    /\ UNCHANGED <<hubVars, hand, received, joined, queue>>

\* ... and the response goes, with its pointers to the subscription.
Release(c) ==
    /\ ClientGoto(c, "closed", "gone")
    /\ UNCHANGED <<hubVars, hand, received, joined, queue, closed>>

Serve(c) ==
    \/ Subscribe(c) \/ Pop(c) \/ Heartbeat(c) \/ Write(c)
    \/ Leave(c) \/ Close(c) \/ Release(c)

-----------------------------------------------------------------------------
Next ==
    \/ \E p \in Publishers : Begin(p) \/ Publish(p)
    \/ \E c \in Clients : Serve(c)

SafeSpec == Init /\ [][Next]_vars

\* A worker that has begun to publish goes on.  Nothing is owed by a client:
\* it may never read what its server thread writes.
Spec == SafeSpec /\ \A p \in Publishers : WF_vars(Publish(p))

-----------------------------------------------------------------------------
\* The publish in progress has still to come to client c.
Awaits(c) ==
    \E p \in Publishers, i \in 1 .. Len(subscriptions) :
        publisher[p].step # "idle" /\ subscriptions[i] = c /\ i >= publisher[p].at

\* The last payload that was offered to client c.
Offered(c) == IF Awaits(c) THEN published - 1 ELSE published

\* What has got to client c, is on the way or waits for it.
Line(c) == received[c] \o hand[c] \o queue[c]

(* A client that is connected gets what is published from its subscription *)
(* on, in the order of the hub's lock, and misses a payload only if it     *)
(* had not popped it when MaxSize newer ones were published.  In           *)
(* particular it misses none because another subscription expired.         *)
MissesOnlyWhenSlow ==
    \A c \in Clients : client[c] \in {"streaming", "writing"} =>
        LET line == Line(c)
            offered == joined[c] + 1 .. Offered(c)
        IN  /\ Range(line) \subseteq offered
            /\ \A i, j \in DOMAIN line : i < j => line[i] < line[j]
            /\ \A m \in offered \ Range(line) : m + MaxSize <= Offered(c)

(* Two clients never see two payloads in different orders, though several  *)
(* workers publish at once.                                                *)
SameOrder ==
    \A c, d \in Clients : \A i, j \in DOMAIN received[c], k, l \in DOMAIN received[d] :
        i < j /\ received[c][i] = received[d][k] /\ received[c][j] = received[d][l] => k < l

(* When a publish ends, no subscription is left in the hub that had        *)
(* expired before it began: those of clients that left do not pile up.     *)
ExpiredAreErased ==
    [][\A p \in Publishers :
           publisher[p].step # "idle" /\ publisher'[p].step = "idle"
               => publisher[p].dead \cap Range(subscriptions') = {}]_vars

(* A publish ends, whatever the clients do or fail to do: a client that    *)
(* does not read holds up no worker.                                       *)
PublishReturns ==
    \A p \in Publishers : publisher[p].step # "idle" ~> publisher[p].step = "idle"

=============================================================================
