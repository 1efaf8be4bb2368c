-------------------------- MODULE StreamHubProofs ---------------------------
(***************************************************************************)
(* StreamHub for any publishers, clients, number of payloads and size of   *)
(* the subscriptions: no iterator runs past the end, a connected client    *)
(* misses only what it was too slow for, all clients see one order, and    *)
(* expired subscriptions go.                                               *)
(***************************************************************************)
EXTENDS StreamHub, SequenceTheorems, TLAPS

-----------------------------------------------------------------------------
(* The inductive invariant.                                                *)

Busy(p) == publisher[p].step # "idle"
Listed(c) == \E i \in 1 .. Len(subscriptions) : subscriptions[i] = c

\* One publish at a time, of the last payload, with a pointer to the
\* subscription it is at while it pushes and to none otherwise.
Mutex == \A p, q \in Publishers : Busy(p) /\ Busy(q) => p = q

Publishes ==
    \A p \in Publishers :
        /\ Busy(p) => publisher[p].payload = published /\ published >= 1
        /\ ~Busy(p) => publisher[p].at = 1
        /\ publisher[p].step = "push" =>
               /\ publisher[p].at <= Len(subscriptions)
               /\ publisher[p].holds = {Current(p)}
        /\ publisher[p].step # "push" => publisher[p].holds = {}

\* The hub lists the connections that are there and none that is not yet.
Connections ==
    \A c \in Clients :
        /\ client[c] \in {"streaming", "writing", "leaving", "closed"} => Listed(c)
        /\ client[c] = "away" =>
               ~Listed(c) /\ queue[c] = <<>> /\ hand[c] = <<>> /\ received[c] = <<>>
        /\ closed[c] <=> client[c] \in {"closed", "gone"}
        /\ client[c] = "streaming" => hand[c] = <<>>
        /\ hand[c] = <<>> \/ \E m \in Payloads : hand[c] = <<m>>

Typed == TypeOK /\ Mutex /\ Publishes /\ Connections

\* The queue of a connected client holds the last payloads it was offered,
\* without a gap; before them it has got, in order, what it was offered, but
\* for payloads that MaxSize newer ones follow.
Increasing(s) == \A i, j \in 1 .. Len(s) : i < j => s[i] < s[j]

InLine(first, last, items, seen) ==
    /\ first <= last - Len(items)
    /\ \A i \in 1 .. Len(items) : items[i] = (last - Len(items)) + i
    /\ Increasing(seen)
    /\ \A i \in 1 .. Len(seen) : seen[i] > first /\ seen[i] <= last - Len(items)
    /\ \A m \in Nat : m > first /\ m <= last - Len(items) /\ (\A i \in 1 .. Len(seen) : seen[i] # m)
                          => m + MaxSize <= last

Seen(c) == received[c] \o hand[c]
Connected(c) == client[c] \in {"streaming", "writing"}

Lines ==
    \A c \in Clients :
        /\ Increasing(received[c])
        /\ Connected(c) => InLine(joined[c], Offered(c), queue[c], Seen(c))

\* A publish has left behind none of those that had expired before it.
Behind ==
    \A p \in Publishers : Busy(p) =>
        /\ \A c \in publisher[p].dead : c \in Clients /\ Expired(c)
        /\ \A i \in 1 .. publisher[p].at - 1 : subscriptions[i] \notin publisher[p].dead

-----------------------------------------------------------------------------
(* Sequences and queues.                                                   *)

LEMMA RemoveAtFacts ==
    ASSUME NEW S, NEW s \in Seq(S), NEW n \in 1 .. Len(s)
    PROVE  /\ RemoveAt(s, n) \in Seq(S) /\ Len(RemoveAt(s, n)) = Len(s) - 1
           /\ \A i \in 1 .. n - 1 : RemoveAt(s, n)[i] = s[i]
           /\ \A i \in n .. Len(s) - 1 : RemoveAt(s, n)[i] = s[i + 1]
  <1> DEFINE a == SubSeq(s, 1, n - 1)
             b == SubSeq(s, n + 1, Len(s))
  <1>1. Len(s) \in Nat /\ n \in Nat /\ n >= 1 /\ n <= Len(s)
    OBVIOUS
  <1>2. a \in Seq(S) /\ Len(a) = n - 1 /\ \A i \in 1 .. n - 1 : a[i] = s[i]
    <2>1. \A i \in 1 .. n - 1 : i \in 1 .. Len(s)
      BY <1>1
    <2>2. /\ a \in Seq(S)
          /\ Len(a) = IF 1 <= n - 1 THEN (n - 1) - 1 + 1 ELSE 0
          /\ \A i \in 1 .. (n - 1) - 1 + 1 : a[i] = s[1 + i - 1]
      BY <1>1, <2>1, SubSeqProperties
    <2>3. QED
      BY <1>1, <2>2
  <1>3. b \in Seq(S) /\ Len(b) = Len(s) - n /\ \A i \in 1 .. Len(s) - n : b[i] = s[n + i]
    <2>1. \A i \in n + 1 .. Len(s) : i \in 1 .. Len(s)
      BY <1>1
    <2>2. /\ b \in Seq(S)
          /\ Len(b) = IF n + 1 <= Len(s) THEN Len(s) - (n + 1) + 1 ELSE 0
          /\ \A i \in 1 .. Len(s) - (n + 1) + 1 : b[i] = s[(n + 1) + i - 1]
      BY <1>1, <2>1, SubSeqProperties
    <2>3. QED
      BY <1>1, <2>2
  <1>4. RemoveAt(s, n) = a \o b
    BY DEF RemoveAt
  <1> HIDE DEF a, b
  <1>5. /\ a \o b \in Seq(S) /\ Len(a \o b) = Len(a) + Len(b)
        /\ \A i \in 1 .. Len(a) + Len(b) : (a \o b)[i] = IF i <= Len(a) THEN a[i] ELSE b[i - Len(a)]
    BY <1>2, <1>3, ConcatProperties
  <1>6. Len(a) = n - 1 /\ Len(a) + Len(b) = Len(s) - 1
    BY <1>1, <1>2, <1>3
  <1>7. ASSUME NEW i \in 1 .. n - 1 PROVE (a \o b)[i] = s[i]
    <2>1. i \in 1 .. Len(s) - 1 /\ i <= n - 1
      BY <1>1, <1>7
    <2>2. QED
      BY <1>2, <1>5, <1>6, <1>7, <2>1
  <1>8. ASSUME NEW i \in n .. Len(s) - 1 PROVE (a \o b)[i] = s[i + 1]
    <2>1. /\ i \in 1 .. Len(s) - 1 /\ ~(i <= n - 1)
          /\ i - (n - 1) \in 1 .. Len(s) - n /\ n + (i - (n - 1)) = i + 1
      BY <1>1, <1>8
    <2>2. (a \o b)[i] = b[i - (n - 1)]
      BY <1>5, <1>6, <2>1
    <2>3. QED
      BY <1>3, <2>1, <2>2
  <1>9. QED
    BY <1>4, <1>5, <1>6, <1>7, <1>8

LEMMA TailFacts ==
    ASSUME NEW S, NEW s \in Seq(S), s # <<>>
    PROVE  /\ Head(s) \in S /\ Head(s) = s[1] /\ Tail(s) \in Seq(S)
           /\ Len(s) \in Nat /\ Len(s) >= 1 /\ Len(Tail(s)) = Len(s) - 1
           /\ \A i \in 1 .. Len(s) - 1 : Tail(s)[i] = s[i + 1]
  OBVIOUS

LEMMA AppendFacts ==
    ASSUME NEW S, NEW s \in Seq(S), NEW e \in S
    PROVE  /\ Append(s, e) \in Seq(S) /\ Len(Append(s, e)) = Len(s) + 1
           /\ \A i \in 1 .. Len(s) : Append(s, e)[i] = s[i]
           /\ Append(s, e)[Len(s) + 1] = e
  BY AppendProperties

LEMMA ConstantFacts ==
    MaxSize \in Nat /\ MaxSize >= 1 /\ MaxPayloads \in Nat /\ SubscriptionSize \in Nat
  BY StreamHubAssumption DEF MaxSize, MaxSizeOf

\* What a push into the queue of a subscription leaves behind.
Offer(q, shut, m) == PushResult(q, shut, "DropOldest", MaxSize, m).items

LEMMA OfferFacts ==
    ASSUME NEW q \in Seq(Payloads), Len(q) <= MaxSize, NEW shut \in BOOLEAN, NEW m \in Payloads
    PROVE  /\ Offer(q, shut, m) \in Seq(Payloads) /\ Len(Offer(q, shut, m)) <= MaxSize
           /\ shut => Offer(q, shut, m) = q
           /\ ~shut /\ Len(q) < MaxSize => Offer(q, shut, m) = Append(q, m)
           /\ ~shut /\ ~(Len(q) < MaxSize) =>
                  q # <<>> /\ Len(q) = MaxSize /\ Offer(q, shut, m) = Append(Tail(q), m)
  <1>1. Len(q) \in Nat
    OBVIOUS
  <1> DEFINE full == Len(q) >= MaxSize
  <1>2. Offer(q, shut, m) =
            IF ~shut THEN Append(IF full THEN Tail(q) ELSE q, m) ELSE q
    BY DEF Offer, PushResult
  <1>3. full <=> ~(Len(q) < MaxSize)
    BY <1>1, ConstantFacts
  <1>4. full => q # <<>> /\ Len(q) = MaxSize
    BY <1>1, ConstantFacts
  <1>5. CASE shut
    BY <1>2, <1>3, <1>4, <1>5
  <1>6. CASE ~shut /\ full
    <2>1. Offer(q, shut, m) = Append(Tail(q), m)
      BY <1>2, <1>6
    <2>2. Tail(q) \in Seq(Payloads) /\ Len(Tail(q)) = Len(q) - 1
      BY <1>4, <1>6, TailFacts
    <2>3. Append(Tail(q), m) \in Seq(Payloads) /\ Len(Append(Tail(q), m)) = Len(q) - 1 + 1
      BY <2>2, AppendFacts
    <2>4. QED
      BY <1>1, <1>3, <1>4, <1>6, <2>1, <2>3
  <1>7. CASE ~shut /\ ~full
    <2>1. Offer(q, shut, m) = Append(q, m)
      BY <1>2, <1>7
    <2>2. Append(q, m) \in Seq(Payloads) /\ Len(Append(q, m)) = Len(q) + 1
      BY AppendFacts
    <2>3. Len(q) + 1 <= MaxSize
      BY <1>1, <1>7, ConstantFacts
    <2>4. QED
      BY <1>3, <1>7, <2>1, <2>2, <2>3
  <1>8. QED
    BY <1>5, <1>6, <1>7

-----------------------------------------------------------------------------
(* Types, the mutex and the connections.                                   *)

PublisherType ==
    [step : {"idle", "visit", "push"}, payload : 0 .. MaxPayloads, at : Nat,
     holds : SUBSET Clients, dead : SUBSET Clients]

LEMMA Facts ==
    ASSUME Typed
    PROVE  /\ subscriptions \in Seq(Clients) /\ Len(subscriptions) \in Nat
           /\ \A i \in 1 .. Len(subscriptions) : subscriptions[i] \in Clients
           /\ \A i, j \in 1 .. Len(subscriptions) : subscriptions[i] = subscriptions[j] => i = j
           /\ publisher \in [Publishers -> PublisherType]
           /\ \A p \in Publishers : publisher[p].at \in Nat /\ publisher[p].at >= 1
                                    /\ publisher[p].at <= Len(subscriptions) + 1
           /\ client \in [Clients -> ClientSteps]
           /\ hand \in [Clients -> Seq(Payloads)]
           /\ queue \in [Clients -> Seq(Payloads)]
           /\ \A c \in Clients : Len(queue[c]) \in Nat /\ Len(queue[c]) <= MaxSize
           /\ closed \in [Clients -> BOOLEAN]
           /\ received \in [Clients -> Seq(Payloads)]
           /\ published \in Nat /\ published <= MaxPayloads
           /\ joined \in [Clients -> 0 .. MaxPayloads]
           /\ \A c \in Clients : joined[c] \in Nat
  <1>1. subscriptions \in Seq(Clients) /\ IsInjective(subscriptions)
    BY DEF Typed, TypeOK
  <1>2. Len(subscriptions) \in Nat /\ DOMAIN subscriptions = 1 .. Len(subscriptions)
        /\ \A i \in 1 .. Len(subscriptions) : subscriptions[i] \in Clients
    BY <1>1
  <1>3. \A i, j \in 1 .. Len(subscriptions) : subscriptions[i] = subscriptions[j] => i = j
    BY <1>1, <1>2 DEF IsInjective
  <1>4. publisher \in [Publishers -> PublisherType]
    BY DEF Typed, TypeOK, PublisherType
  <1>5. \A p \in Publishers : publisher[p].at \in Nat /\ publisher[p].at >= 1
                              /\ publisher[p].at <= Len(subscriptions) + 1
    BY <1>2 DEF Typed, TypeOK
  <1>6. /\ queue \in [Clients -> Seq(Payloads)]
        /\ \A c \in Clients : Len(queue[c]) \in Nat /\ Len(queue[c]) <= MaxSize
    BY DEF Typed, TypeOK
  <1>7. /\ client \in [Clients -> ClientSteps] /\ hand \in [Clients -> Seq(Payloads)]
        /\ closed \in [Clients -> BOOLEAN] /\ received \in [Clients -> Seq(Payloads)]
        /\ published \in 0 .. MaxPayloads /\ joined \in [Clients -> 0 .. MaxPayloads]
    BY DEF Typed, TypeOK
  <1>8. published \in Nat /\ published <= MaxPayloads /\ \A c \in Clients : joined[c] \in Nat
    BY <1>7, ConstantFacts
  <1>9. QED
    BY <1>1, <1>2, <1>3, <1>4, <1>5, <1>6, <1>7, <1>8

LEMMA InjectiveIs ==
    ASSUME NEW s \in Seq(Clients), \A i, j \in 1 .. Len(s) : s[i] = s[j] => i = j
    PROVE  IsInjective(s)
  <1>1. DOMAIN s = 1 .. Len(s)
    OBVIOUS
  <1>2. QED
    BY <1>1 DEF IsInjective

\* The state of one publisher changes.
LEMMA Replaced ==
    ASSUME Typed, NEW p \in Publishers, NEW r \in PublisherType,
           publisher' = [publisher EXCEPT ![p] = r]
    PROVE  /\ publisher' \in [Publishers -> PublisherType]
           /\ publisher'[p] = r
           /\ \A q \in Publishers : q # p => publisher'[q] = publisher[q]
  <1>1. publisher \in [Publishers -> PublisherType]
    BY Facts
  <1>2. QED
    BY <1>1

LEMMA InitTyped == Init => Typed
  <1> SUFFICES ASSUME Init PROVE Typed
    OBVIOUS
  <1>1. <<>> \in Seq(Clients) /\ <<>> \in Seq(Payloads) /\ Len(<<>>) = 0
    BY EmptySeq
  <1>2. subscriptions \in Seq(Clients) /\ IsInjective(subscriptions) /\ Len(subscriptions) = 0
    BY <1>1 DEF Init, IsInjective
  <1>3. \A p \in Publishers : publisher[p] = [step |-> "idle", payload |-> 0, at |-> 1,
                                              holds |-> {}, dead |-> {}]
    BY DEF Init, NotPublishing, Publishing
  <1>4. publisher \in [Publishers -> PublisherType]
    BY <1>3, ConstantFacts DEF Init, NotPublishing, Publishing, PublisherType
  <1>5. \A p \in Publishers : publisher[p].at \in 1 .. Len(subscriptions) + 1
    BY <1>2, <1>3
  <1>6. /\ client \in [Clients -> ClientSteps] /\ hand \in [Clients -> Seq(Payloads)]
        /\ queue \in [Clients -> Seq(Payloads)] /\ \A c \in Clients : Len(queue[c]) <= MaxSize
        /\ closed \in [Clients -> BOOLEAN] /\ received \in [Clients -> Seq(Payloads)]
        /\ published \in 0 .. MaxPayloads /\ joined \in [Clients -> 0 .. MaxPayloads]
    BY <1>1, ConstantFacts DEF Init, ClientSteps
  <1>7. TypeOK
    BY <1>2, <1>4, <1>5, <1>6 DEF TypeOK, PublisherType
  <1>8. Mutex /\ Publishes
    BY <1>3 DEF Mutex, Publishes, Busy
  <1>9. Connections
    BY <1>2 DEF Init, Connections, Listed
  <1>10. QED
    BY <1>7, <1>8, <1>9 DEF Typed

\* What is at stake in a step that leaves the hub alone...
LEMMA HubKept ==
    ASSUME Typed, UNCHANGED hubVars
    PROVE  /\ subscriptions' \in Seq(Clients) /\ IsInjective(subscriptions')
           /\ publisher' \in [Publishers -> PublisherType]
           /\ \A p \in Publishers : publisher'[p].at \in 1 .. Len(subscriptions') + 1
           /\ published' \in 0 .. MaxPayloads
           /\ Mutex' /\ Publishes'
           /\ \A c \in Clients : Listed(c)' <=> Listed(c)
  <1>1. UNCHANGED <<subscriptions, publisher, published>>
    BY DEF hubVars
  <1>2. QED
    BY <1>1 DEF Typed, TypeOK, PublisherType, Mutex, Publishes, Busy, Current, Listed

\* ... and in one that leaves the connections alone.
LEMMA ClientsKept ==
    ASSUME Typed, UNCHANGED <<clientVars, queue, closed>>,
           \A c \in Clients : client[c] # "gone" => (Listed(c)' <=> Listed(c))
    PROVE  /\ client' \in [Clients -> ClientSteps] /\ hand' \in [Clients -> Seq(Payloads)]
           /\ queue' \in [Clients -> Seq(Payloads)] /\ \A c \in Clients : Len(queue'[c]) <= MaxSize
           /\ closed' \in [Clients -> BOOLEAN] /\ received' \in [Clients -> Seq(Payloads)]
           /\ joined' \in [Clients -> 0 .. MaxPayloads]
           /\ Connections'
  <1>1. UNCHANGED <<client, hand, received, joined, queue, closed>>
    BY DEF clientVars
  <1>2. QED
    BY <1>1 DEF Typed, TypeOK, Connections

LEMMA BeginTyped ==
    ASSUME Typed, NEW p \in Publishers, Begin(p)
    PROVE  Typed'
  <1> DEFINE dead == {c \in Range(subscriptions) : Expired(c)}
  <1>1. /\ \A q \in Publishers : ~Busy(q)
        /\ published < MaxPayloads /\ published' = published + 1
        /\ publisher' = [publisher EXCEPT ![p] = Publishing(published', dead)]
        /\ UNCHANGED <<subscriptions, clientVars, queue, closed>>
    BY DEF Begin, HubIsFree, HubFree, Busy
  <1>2. published' \in 0 .. MaxPayloads /\ published' >= 1
    BY <1>1, Facts, ConstantFacts
  <1>3. dead \subseteq Clients
    BY Facts DEF Range
  <1> HIDE DEF dead
  <1>4. /\ publisher' \in [Publishers -> PublisherType]
        /\ publisher'[p] = Publishing(published', dead)
        /\ \A q \in Publishers : q # p => publisher'[q] = publisher[q]
    BY <1>1, <1>2, <1>3, Facts DEF Publishing, PublisherType
  <1>5. \A q \in Publishers : publisher'[q].at \in 1 .. Len(subscriptions') + 1
    BY <1>1, <1>4, Facts DEF Publishing
  <1>6. Mutex' /\ Publishes'
    BY <1>1, <1>2, <1>4 DEF Typed, Mutex, Publishes, Busy, Publishing, Current
  <1>7. Connections' /\ TypeOK'
    <2>1. \A c \in Clients : Listed(c)' <=> Listed(c)
      BY <1>1 DEF Listed
    <2>2. subscriptions' \in Seq(Clients) /\ IsInjective(subscriptions')
      BY <1>1 DEF Typed, TypeOK
    <2>3. QED
      BY <1>1, <1>2, <1>4, <1>5, <2>1, <2>2, ClientsKept DEF TypeOK, PublisherType
  <1>8. QED
    BY <1>6, <1>7 DEF Typed

LEMMA LockTyped ==
    ASSUME Typed, NEW p \in Publishers, Lock(p)
    PROVE  Typed'
  <1>1. /\ publisher[p].step = "visit" /\ publisher[p].at <= Len(subscriptions)
        /\ publisher' = [publisher EXCEPT ![p].step = "push", ![p].holds = {Current(p)}]
        /\ UNCHANGED <<subscriptions, published, clientVars, queue, closed>>
    BY DEF Lock, Visiting
  <1>2. Current(p) \in Clients
    BY <1>1, Facts DEF Current
  <1>3. /\ publisher' \in [Publishers -> PublisherType]
        /\ publisher'[p].step = "push" /\ publisher'[p].holds = {Current(p)}
        /\ publisher'[p].at = publisher[p].at /\ publisher'[p].payload = publisher[p].payload
        /\ \A q \in Publishers : q # p => publisher'[q] = publisher[q]
    <2> DEFINE r == [publisher[p] EXCEPT !.step = "push", !.holds = {Current(p)}]
    <2>1. publisher[p] \in PublisherType
      BY Facts
    <2>2. /\ r \in PublisherType /\ r.step = "push" /\ r.holds = {Current(p)}
          /\ r.at = publisher[p].at /\ r.payload = publisher[p].payload
      BY <1>2, <2>1 DEF PublisherType
    <2>3. publisher' = [publisher EXCEPT ![p] = r]
      BY <1>1
    <2> HIDE DEF r
    <2>4. QED
      BY <2>2, <2>3, Replaced
  <1>4. \A q \in Publishers : publisher'[q].at \in 1 .. Len(subscriptions') + 1
    <2>1. \A q \in Publishers : publisher'[q].at = publisher[q].at
      BY <1>3
    <2>2. \A q \in Publishers : publisher[q].at \in 1 .. Len(subscriptions) + 1
      <3>1. \A q \in Publishers : publisher[q].at \in Nat /\ publisher[q].at >= 1
                                    /\ publisher[q].at <= Len(subscriptions) + 1
        BY Facts
      <3>2. Len(subscriptions) \in Nat
        BY Facts
      <3>3. QED
        BY <3>1, <3>2
    <2>3. subscriptions' = subscriptions
      BY <1>1
    <2>4. QED
      BY <2>1, <2>2, <2>3
  <1>5. Mutex' /\ Publishes'
    BY <1>1, <1>3 DEF Typed, Mutex, Publishes, Busy, Current
  <1>6. Connections' /\ TypeOK'
    <2>1. \A c \in Clients : Listed(c)' <=> Listed(c)
      BY <1>1 DEF Listed
    <2>2. subscriptions' \in Seq(Clients) /\ IsInjective(subscriptions') /\ published' \in 0 .. MaxPayloads
      BY <1>1 DEF Typed, TypeOK
    <2>3. QED
      BY <1>1, <1>3, <1>4, <2>1, <2>2, ClientsKept DEF TypeOK, PublisherType
  <1>7. QED
    BY <1>5, <1>6 DEF Typed

\* The positions that Erase leaves: each is that of an entry that was there.
LEMMA ErasedFacts ==
    ASSUME Typed, NEW p \in Publishers, Erase(p)
    PROVE  /\ publisher[p].step = "visit" /\ publisher[p].at \in 1 .. Len(subscriptions)
           /\ Current(p) \in Clients /\ Expired(Current(p))
           /\ subscriptions' \in Seq(Clients) /\ Len(subscriptions') = Len(subscriptions) - 1
           /\ \A i \in 1 .. publisher[p].at - 1 : subscriptions'[i] = subscriptions[i]
           /\ \A i \in publisher[p].at .. Len(subscriptions) - 1 :
                  subscriptions'[i] = subscriptions[i + 1]
           /\ UNCHANGED <<publisher, published, clientVars, queue, closed>>
  <1>1. /\ publisher[p].step = "visit" /\ publisher[p].at \in 1 .. Len(subscriptions)
        /\ Expired(Current(p))
        /\ subscriptions' = RemoveAt(subscriptions, publisher[p].at)
        /\ UNCHANGED <<publisher, published, clientVars, queue, closed>>
    BY Facts DEF Erase, Visiting
  <1>2. Current(p) \in Clients
    BY <1>1, Facts DEF Current
  <1> DEFINE n == publisher[p].at
  <1>3. n \in 1 .. Len(subscriptions) /\ subscriptions \in Seq(Clients)
    BY <1>1, Facts
  <1> HIDE DEF n
  <1>4. /\ RemoveAt(subscriptions, n) \in Seq(Clients)
        /\ Len(RemoveAt(subscriptions, n)) = Len(subscriptions) - 1
        /\ \A i \in 1 .. n - 1 : RemoveAt(subscriptions, n)[i] = subscriptions[i]
        /\ \A i \in n .. Len(subscriptions) - 1 : RemoveAt(subscriptions, n)[i] = subscriptions[i + 1]
    BY <1>3, RemoveAtFacts
  <1>5. QED
    BY <1>1, <1>2, <1>4 DEF n

\* Every other subscription stays, and only those.
LEMMA OthersStay ==
    ASSUME Typed, NEW p \in Publishers, Erase(p), NEW c, c # Current(p)
    PROVE  Listed(c)' <=> Listed(c)
  <1> DEFINE n == publisher[p].at
  <1>1. /\ n \in Nat /\ n >= 1 /\ n <= Len(subscriptions) /\ Len(subscriptions) \in Nat
        /\ Len(subscriptions') = Len(subscriptions) - 1
        /\ \A i \in 1 .. n - 1 : subscriptions'[i] = subscriptions[i]
        /\ \A i \in n .. Len(subscriptions) - 1 : subscriptions'[i] = subscriptions[i + 1]
        /\ c # subscriptions[n]
    <2>1. n \in Nat /\ n >= 1 /\ n <= Len(subscriptions) /\ Len(subscriptions) \in Nat
      <3>1. n \in 1 .. Len(subscriptions)
        BY ErasedFacts
      <3>2. Len(subscriptions) \in Nat
        BY Facts
      <3> HIDE DEF n
      <3>3. QED
        BY <3>1, <3>2
    <2>2. c # subscriptions[n]
      BY DEF Current
    <2>3. QED
      BY ErasedFacts, <2>1, <2>2
  <1> HIDE DEF n
  <1>2. ASSUME NEW i \in 1 .. Len(subscriptions), subscriptions[i] = c PROVE Listed(c)'
    <2>1. i # n
      BY <1>1, <1>2
    <2>2. CASE i < n
      <3>1. i \in 1 .. n - 1 /\ i \in 1 .. Len(subscriptions')
        BY <1>1, <2>2
      <3>2. QED
        BY <1>1, <1>2, <3>1 DEF Listed
    <2>3. CASE i > n
      <3>1. i - 1 \in n .. Len(subscriptions) - 1 /\ i - 1 \in 1 .. Len(subscriptions') /\ (i - 1) + 1 = i
        BY <1>1, <2>3
      <3>2. QED
        BY <1>1, <1>2, <3>1 DEF Listed
    <2>4. QED
      BY <1>1, <2>1, <2>2, <2>3
  <1>3. ASSUME NEW i \in 1 .. Len(subscriptions'), subscriptions'[i] = c PROVE Listed(c)
    <2>1. CASE i < n
      <3>1. i \in 1 .. n - 1 /\ i \in 1 .. Len(subscriptions)
        BY <1>1, <2>1
      <3>2. QED
        BY <1>1, <1>3, <3>1 DEF Listed
    <2>2. CASE ~(i < n)
      <3>1. i \in n .. Len(subscriptions) - 1 /\ i + 1 \in 1 .. Len(subscriptions)
        BY <1>1, <2>2
      <3>2. QED
        BY <1>1, <1>3, <3>1 DEF Listed
    <2>3. QED
      BY <2>1, <2>2
  <1>4. QED
    BY <1>2, <1>3 DEF Listed

LEMMA EraseTyped ==
    ASSUME Typed, NEW p \in Publishers, Erase(p)
    PROVE  Typed'
  <1> DEFINE n == publisher[p].at
             old(i) == IF i < n THEN i ELSE i + 1
  <1>1. /\ n \in Nat /\ n >= 1 /\ n <= Len(subscriptions) /\ Len(subscriptions) \in Nat
        /\ publisher[p].step = "visit" /\ Current(p) = subscriptions[n]
        /\ client[Current(p)] = "gone"
        /\ UNCHANGED <<publisher, published, clientVars, queue, closed>>
        /\ subscriptions' \in Seq(Clients) /\ Len(subscriptions') = Len(subscriptions) - 1
        /\ \A i \in 1 .. n - 1 : subscriptions'[i] = subscriptions[i]
        /\ \A i \in n .. Len(subscriptions) - 1 : subscriptions'[i] = subscriptions[i + 1]
    <2>1. n \in Nat /\ n >= 1 /\ n <= Len(subscriptions) /\ Len(subscriptions) \in Nat
      <3>1. n \in 1 .. Len(subscriptions)
        BY ErasedFacts
      <3>2. Len(subscriptions) \in Nat
        BY Facts
      <3> HIDE DEF n
      <3>3. QED
        BY <3>1, <3>2
    <2>2. client[Current(p)] = "gone"
      BY ErasedFacts DEF Expired
    <2>3. Current(p) = subscriptions[n]
      BY DEF Current
    <2>4. QED
      BY ErasedFacts, <2>1, <2>2, <2>3
  <1>2. \A q \in Publishers : q # p => ~Busy(q)
    BY <1>1 DEF Typed, Mutex, Busy
  <1>3. \A q \in Publishers : publisher'[q].at \in 1 .. Len(subscriptions') + 1
    <2>1. \A q \in Publishers : q # p => publisher[q].at = 1
      BY <1>2 DEF Typed, Publishes
    <2>2. publisher'[p].at = n /\ \A q \in Publishers : q # p => publisher'[q].at = 1
      BY <1>1, <2>1
    <2> HIDE DEF n
    <2>3. QED
      BY <1>1, <2>2
  <1>4. Mutex' /\ Publishes'
    <2>1. \A q \in Publishers : publisher[q].step # "push"
      BY <1>1, <1>2 DEF Busy
    <2>2. QED
      BY <1>1, <2>1 DEF Typed, Mutex, Publishes, Busy
  <1>5. IsInjective(subscriptions')
    <2> HIDE DEF n
    <2>1. ASSUME NEW i \in 1 .. Len(subscriptions')
          PROVE  old(i) \in 1 .. Len(subscriptions) /\ subscriptions'[i] = subscriptions[old(i)]
      <3>1. CASE i < n
        <4>1. i \in 1 .. n - 1 /\ i \in 1 .. Len(subscriptions)
          BY <1>1, <3>1
        <4>2. QED
          BY <1>1, <3>1, <4>1
      <3>2. CASE ~(i < n)
        <4>1. i \in n .. Len(subscriptions) - 1 /\ i + 1 \in 1 .. Len(subscriptions)
          BY <1>1, <3>2
        <4>2. QED
          BY <1>1, <3>2, <4>1
      <3>3. QED
        BY <3>1, <3>2
    <2>2. ASSUME NEW i \in 1 .. Len(subscriptions'), NEW j \in 1 .. Len(subscriptions'),
                 subscriptions'[i] = subscriptions'[j]
          PROVE  i = j
      <3>1. old(i) = old(j)
        BY <2>1, <2>2, Facts
      <3>2. i \in Nat /\ j \in Nat
        OBVIOUS
      <3>3. QED
        BY <1>1, <3>1, <3>2
    <2>3. QED
      BY <1>1, <2>2, InjectiveIs
  <1>6. Connections' /\ TypeOK'
    <2>1. \A c \in Clients : client[c] # "gone" => (Listed(c)' <=> Listed(c))
      BY <1>1, OthersStay
    <2>2. publisher' \in [Publishers -> PublisherType] /\ published' \in 0 .. MaxPayloads
      BY <1>1, Facts DEF Typed, TypeOK
    <2>3. QED
      BY <1>1, <1>3, <1>5, <2>1, <2>2, ClientsKept DEF TypeOK, PublisherType
  <1>7. QED
    BY <1>4, <1>6 DEF Typed

\* The one subscription that Push holds takes the payload.
LEMMA PushFacts ==
    ASSUME Typed, NEW p \in Publishers, Push(p)
    PROVE  /\ publisher[p].step = "push" /\ publisher[p].at <= Len(subscriptions)
           /\ Current(p) \in Clients /\ publisher[p].payload = published
           /\ published \in Payloads
           /\ queue' = [queue EXCEPT ![Current(p)] =
                  Offer(queue[Current(p)], closed[Current(p)], published)]
           /\ publisher' \in [Publishers -> PublisherType]
           /\ publisher'[p].step = "visit" /\ publisher'[p].holds = {}
           /\ publisher'[p].at = publisher[p].at + 1
           /\ publisher'[p].payload = publisher[p].payload
           /\ publisher'[p].dead = publisher[p].dead
           /\ \A q \in Publishers : q # p => publisher'[q] = publisher[q] /\ ~Busy(q)
           /\ UNCHANGED <<subscriptions, published, clientVars, closed>>
  <1> PICK c \in publisher[p].holds :
        /\ publisher[p].step = "push"
        /\ queue' = [queue EXCEPT ![c] =
               PushResult(@, closed[c], "DropOldest", MaxSize, publisher[p].payload).items]
        /\ publisher' = [publisher EXCEPT ![p].step = "visit", ![p].at = @ + 1, ![p].holds = {}]
        /\ UNCHANGED <<subscriptions, published, clientVars, closed>>
    BY DEF Push
  <1>1. publisher[p].at <= Len(subscriptions) /\ c = Current(p) /\ Busy(p)
    BY DEF Typed, Publishes, Busy
  <1>2. Current(p) \in Clients
    BY <1>1, Facts DEF Current
  <1>3. publisher[p].payload = published /\ published \in Payloads
    <2>1. publisher[p].payload = published /\ published >= 1
      BY <1>1 DEF Typed, Publishes
    <2>2. QED
      BY <2>1, Facts DEF Payloads
  <1>4. queue' = [queue EXCEPT ![Current(p)] =
            Offer(queue[Current(p)], closed[Current(p)], published)]
    BY <1>1, <1>3 DEF Offer
  <1>5. \A q \in Publishers : q # p => ~Busy(q)
    BY <1>1 DEF Typed, Mutex
  <1> DEFINE r == [publisher[p] EXCEPT !.step = "visit", !.at = @ + 1, !.holds = {}]
  <1>6. publisher[p] \in PublisherType /\ publisher[p].at \in Nat
    BY Facts
  <1>7. /\ r \in PublisherType /\ r.step = "visit" /\ r.holds = {} /\ r.at = publisher[p].at + 1
        /\ r.payload = publisher[p].payload /\ r.dead = publisher[p].dead
    <2>1. publisher[p].at + 1 \in Nat
      BY <1>6
    <2> DEFINE n == publisher[p].at + 1
    <2>2. r = [publisher[p] EXCEPT !.step = "visit", !.at = n, !.holds = {}]
      OBVIOUS
    <2> HIDE DEF n, r
    <2>3. /\ r \in PublisherType /\ r.step = "visit" /\ r.holds = {} /\ r.at = n
          /\ r.payload = publisher[p].payload /\ r.dead = publisher[p].dead
      <3>1. n \in Nat
        BY <2>1 DEF n
      <3>2. QED
        BY <1>6, <2>2, <3>1 DEF PublisherType
    <2>4. QED
      BY <2>3 DEF n
  <1>8. publisher' = [publisher EXCEPT ![p] = r]
    OBVIOUS
  <1> HIDE DEF r
  <1>9. /\ publisher' \in [Publishers -> PublisherType] /\ publisher'[p] = r
        /\ \A q \in Publishers : q # p => publisher'[q] = publisher[q]
    BY <1>7, <1>8, Replaced
  <1>10. QED
    BY <1>1, <1>2, <1>3, <1>4, <1>5, <1>7, <1>9

LEMMA PushTyped ==
    ASSUME Typed, NEW p \in Publishers, Push(p)
    PROVE  Typed'
  <1> DEFINE c == Current(p)
             pushed == Offer(queue[c], closed[c], published)
  <1>1. /\ c \in Clients /\ published \in Payloads
        /\ publisher[p].step = "push" /\ publisher[p].at <= Len(subscriptions)
        /\ queue' = [queue EXCEPT ![c] = pushed]
        /\ publisher' \in [Publishers -> PublisherType]
        /\ publisher'[p].step = "visit" /\ publisher'[p].holds = {}
        /\ publisher'[p].at = publisher[p].at + 1
        /\ publisher'[p].payload = publisher[p].payload
        /\ \A q \in Publishers : q # p => publisher'[q] = publisher[q] /\ ~Busy(q)
        /\ UNCHANGED <<subscriptions, published, client, hand, received, joined, closed>>
    BY PushFacts DEF clientVars
  <1>2. queue[c] \in Seq(Payloads) /\ Len(queue[c]) <= MaxSize /\ closed[c] \in BOOLEAN
    BY <1>1, Facts
  <1>3. pushed \in Seq(Payloads) /\ Len(pushed) <= MaxSize
    BY <1>1, <1>2, OfferFacts
  <1>4. \A q \in Publishers : publisher'[q].at \in 1 .. Len(subscriptions') + 1
    <2>1. publisher'[p].at \in 1 .. Len(subscriptions) + 1
      <3>1. publisher[p].at \in Nat /\ publisher[p].at >= 1 /\ Len(subscriptions) \in Nat
        BY Facts
      <3>2. publisher'[p].at = publisher[p].at + 1 /\ publisher[p].at <= Len(subscriptions)
        BY <1>1
      <3>3. QED
        BY <3>1, <3>2
    <2>2. \A q \in Publishers : q # p => publisher'[q].at = publisher[q].at
      BY <1>1
    <2>3. \A q \in Publishers : publisher[q].at \in 1 .. Len(subscriptions) + 1
      BY Facts
    <2>4. QED
      BY <1>1, <2>1, <2>2, <2>3
  <1>5. Mutex' /\ Publishes'
    <2>1. \A q \in Publishers : q # p => ~Busy(q)'
      BY <1>1 DEF Busy
    <2>2. Busy(p)' /\ Busy(p)
      BY <1>1 DEF Busy
    <2>3. publisher'[p].payload = published' /\ published' >= 1
      BY <1>1, <2>2 DEF Typed, Publishes
    <2>4. \A q \in Publishers : q # p => publisher'[q].step # "push" /\ publisher'[q].holds = {}
                                        /\ publisher'[q].at = 1
      <3>1. \A q \in Publishers : q # p => publisher[q].step = "idle" /\ publisher'[q] = publisher[q]
        BY <1>1 DEF Busy
      <3>2. \A q \in Publishers : q # p => publisher[q].holds = {} /\ publisher[q].at = 1
        BY <3>1 DEF Typed, Publishes, Busy
      <3>3. QED
        BY <3>1, <3>2
    <2>5. QED
      BY <1>1, <2>1, <2>2, <2>3, <2>4 DEF Mutex, Publishes
  <1> HIDE DEF pushed, c
  <1>6. /\ queue' \in [Clients -> Seq(Payloads)]
        /\ queue'[c] = pushed /\ \A d \in Clients : d # c => queue'[d] = queue[d]
    BY <1>1, <1>3, Facts
  <1>7. \A d \in Clients : Len(queue'[d]) <= MaxSize
    BY <1>3, <1>6, Facts
  <1>8. Connections'
    <2>1. \A d \in Clients : Listed(d)' <=> Listed(d)
      BY <1>1 DEF Listed
    <2>2. client[c] # "away"
      <3>1. publisher[p].at \in 1 .. Len(subscriptions) /\ subscriptions[publisher[p].at] = c
        <4>1. publisher[p].at \in Nat /\ publisher[p].at >= 1 /\ Len(subscriptions) \in Nat
          BY Facts
        <4>2. QED
          BY <1>1, <4>1 DEF c, Current
      <3>2. Listed(c)
        BY <3>1 DEF Listed
      <3>3. QED
        BY <1>1, <3>2 DEF Typed, Connections
    <2>3. QED
      BY <1>1, <1>6, <2>1, <2>2 DEF Typed, Connections
  <1>9. TypeOK'
    BY <1>1, <1>4, <1>6, <1>7 DEF Typed, TypeOK, PublisherType
  <1>10. QED
    BY <1>5, <1>8, <1>9 DEF Typed

LEMMA EndFacts ==
    ASSUME Typed, NEW p \in Publishers, End(p)
    PROVE  /\ publisher[p].step = "visit" /\ publisher[p].at = Len(subscriptions) + 1
           /\ publisher' \in [Publishers -> PublisherType]
           /\ publisher'[p] = NotPublishing
           /\ \A q \in Publishers : q # p => publisher'[q] = publisher[q] /\ ~Busy(q)
           /\ UNCHANGED <<subscriptions, published, clientVars, queue, closed>>
  <1>1. /\ publisher[p].step = "visit" /\ publisher[p].at > Len(subscriptions)
        /\ publisher' = [publisher EXCEPT ![p] = NotPublishing]
        /\ UNCHANGED <<subscriptions, published, clientVars, queue, closed>>
    BY DEF End
  <1>2. publisher[p].at = Len(subscriptions) + 1
    BY <1>1, Facts
  <1>3. NotPublishing \in PublisherType
    BY ConstantFacts DEF NotPublishing, Publishing, PublisherType
  <1>4. /\ publisher' \in [Publishers -> PublisherType] /\ publisher'[p] = NotPublishing
        /\ \A q \in Publishers : q # p => publisher'[q] = publisher[q]
    BY <1>1, <1>3, Replaced
  <1>5. \A q \in Publishers : q # p => ~Busy(q)
    BY <1>1 DEF Typed, Mutex, Busy
  <1>6. QED
    BY <1>1, <1>2, <1>4, <1>5

LEMMA EndTyped ==
    ASSUME Typed, NEW p \in Publishers, End(p)
    PROVE  Typed'
  <1>1. /\ publisher' \in [Publishers -> PublisherType] /\ publisher'[p] = NotPublishing
        /\ \A q \in Publishers : q # p => publisher'[q] = publisher[q] /\ ~Busy(q)
        /\ UNCHANGED <<subscriptions, published, clientVars, queue, closed>>
    BY EndFacts
  <1>2. NotPublishing.step = "idle" /\ NotPublishing.at = 1 /\ NotPublishing.holds = {}
    BY DEF NotPublishing, Publishing
  <1>3. \A q \in Publishers : publisher'[q].step = "idle" /\ publisher'[q].at = 1
                              /\ publisher'[q].holds = {}
    BY <1>1, <1>2 DEF Typed, Publishes, Busy
  <1>4. Mutex' /\ Publishes'
    BY <1>3 DEF Mutex, Publishes, Busy
  <1>5. \A q \in Publishers : publisher'[q].at \in 1 .. Len(subscriptions') + 1
    BY <1>1, <1>3, Facts
  <1>6. Connections' /\ TypeOK'
    <2>1. \A c \in Clients : Listed(c)' <=> Listed(c)
      BY <1>1 DEF Listed
    <2>2. subscriptions' \in Seq(Clients) /\ IsInjective(subscriptions') /\ published' \in 0 .. MaxPayloads
      BY <1>1 DEF Typed, TypeOK
    <2>3. QED
      BY <1>1, <1>5, <2>1, <2>2, ClientsKept DEF TypeOK, PublisherType
  <1>7. QED
    BY <1>4, <1>6 DEF Typed

LEMMA SubscribeTyped ==
    ASSUME Typed, NEW c \in Clients, Subscribe(c)
    PROVE  Typed'
  <1>1. /\ \A q \in Publishers : publisher[q].step = "idle"
        /\ client[c] = "away" /\ client' = [client EXCEPT ![c] = "streaming"]
        /\ subscriptions' = Append(subscriptions, c)
        /\ joined' = [joined EXCEPT ![c] = published]
        /\ UNCHANGED <<publisher, published, hand, received, queue, closed>>
    BY DEF Subscribe, ClientGoto, HubFree
  <1>2. /\ subscriptions' \in Seq(Clients) /\ Len(subscriptions') = Len(subscriptions) + 1
        /\ \A i \in 1 .. Len(subscriptions) : subscriptions'[i] = subscriptions[i]
        /\ subscriptions'[Len(subscriptions) + 1] = c
    BY <1>1, Facts, AppendFacts
  <1>3. ~Listed(c)
    BY <1>1 DEF Typed, Connections
  <1>4. \A d : Listed(d)' <=> (Listed(d) \/ d = c)
    <2>1. ASSUME NEW d, NEW i \in 1 .. Len(subscriptions'), subscriptions'[i] = d
          PROVE  Listed(d) \/ d = c
      <3>1. i \in 1 .. Len(subscriptions) \/ i = Len(subscriptions) + 1
        BY <1>2, Facts
      <3>2. QED
        BY <1>2, <2>1, <3>1 DEF Listed
    <2>2. ASSUME NEW d, NEW i \in 1 .. Len(subscriptions), subscriptions[i] = d
          PROVE  Listed(d)'
      <3>1. i \in 1 .. Len(subscriptions')
        BY <1>2, Facts
      <3>2. QED
        BY <1>2, <2>2, <3>1 DEF Listed
    <2>3. Listed(c)'
      <3>1. Len(subscriptions) + 1 \in 1 .. Len(subscriptions')
        BY <1>2, Facts
      <3>2. QED
        BY <1>2, <3>1 DEF Listed
    <2>4. QED
      BY <2>1, <2>2, <2>3 DEF Listed
  <1>5. IsInjective(subscriptions')
    <2>1. ASSUME NEW i \in 1 .. Len(subscriptions'), NEW j \in 1 .. Len(subscriptions'),
                 subscriptions'[i] = subscriptions'[j]
          PROVE  i = j
      <3>1. /\ i \in 1 .. Len(subscriptions) \/ i = Len(subscriptions) + 1
            /\ j \in 1 .. Len(subscriptions) \/ j = Len(subscriptions) + 1
        <4>1. Len(subscriptions') = Len(subscriptions) + 1 /\ Len(subscriptions) \in Nat
          BY <1>2, Facts
        <4>2. QED
          BY <4>1
      <3>2. \A k \in 1 .. Len(subscriptions) : subscriptions'[k] # c
        BY <1>2, <1>3 DEF Listed
      <3>3. QED
        BY <1>2, <2>1, <3>1, <3>2, Facts
    <2>2. QED
      BY <1>2, <2>1, InjectiveIs
  <1>6. \A q \in Publishers : publisher'[q].at \in 1 .. Len(subscriptions') + 1
    <2>1. \A q \in Publishers : publisher'[q].at \in Nat /\ publisher'[q].at >= 1
                                /\ publisher'[q].at <= Len(subscriptions) + 1
      BY <1>1, Facts
    <2>2. Len(subscriptions) \in Nat
      BY Facts
    <2>3. QED
      BY <1>2, <2>1, <2>2
  <1>7. Mutex' /\ Publishes'
    BY <1>1 DEF Typed, Mutex, Publishes, Busy
  <1>8. /\ client' \in [Clients -> ClientSteps] /\ joined' \in [Clients -> 0 .. MaxPayloads]
        /\ client'[c] = "streaming" /\ \A d \in Clients : d # c => client'[d] = client[d]
    BY <1>1, Facts DEF ClientSteps
  <1>9. Connections'
    <2>1. closed'[c] <=> client'[c] \in {"closed", "gone"}
      BY <1>1, <1>8 DEF Typed, Connections
    <2>2. QED
      BY <1>1, <1>4, <1>8, <2>1 DEF Typed, Connections
  <1>10. TypeOK'
    BY <1>1, <1>2, <1>5, <1>6, <1>8 DEF Typed, TypeOK
  <1>11. QED
    BY <1>7, <1>9, <1>10 DEF Typed

\* The other steps of a connection leave the hub alone.
LEMMA PopTyped ==
    ASSUME Typed, NEW c \in Clients, Pop(c)
    PROVE  Typed' /\ queue[c] \in Seq(Payloads) /\ queue[c] # <<>>
  <1>1. /\ client[c] = "streaming" /\ client' = [client EXCEPT ![c] = "writing"]
        /\ queue[c] # <<>>
        /\ hand' = [hand EXCEPT ![c] = <<Head(queue[c])>>]
        /\ queue' = [queue EXCEPT ![c] = Tail(queue[c])]
        /\ UNCHANGED <<hubVars, received, joined, closed>>
    BY DEF Pop, ClientGoto
  <1>2. queue[c] \in Seq(Payloads) /\ Len(queue[c]) \in Nat /\ Len(queue[c]) <= MaxSize
    BY Facts
  <1>3. /\ Head(queue[c]) \in Payloads /\ Tail(queue[c]) \in Seq(Payloads)
        /\ Len(Tail(queue[c])) = Len(queue[c]) - 1
    BY <1>1, <1>2, TailFacts
  <1>4. <<Head(queue[c])>> \in Seq(Payloads)
    BY <1>3
  <1>5. /\ client' \in [Clients -> ClientSteps] /\ hand' \in [Clients -> Seq(Payloads)]
        /\ queue' \in [Clients -> Seq(Payloads)]
        /\ client'[c] = "writing" /\ hand'[c] = <<Head(queue[c])>> /\ queue'[c] = Tail(queue[c])
        /\ \A d \in Clients : d # c =>
               client'[d] = client[d] /\ hand'[d] = hand[d] /\ queue'[d] = queue[d]
    BY <1>1, <1>3, <1>4, Facts DEF ClientSteps
  <1>6. \A d \in Clients : Len(queue'[d]) <= MaxSize
    <2>1. Len(queue'[c]) <= MaxSize
      BY <1>2, <1>3, <1>5, ConstantFacts
    <2>2. QED
      BY <1>5, <2>1, Facts
  <1>7. TypeOK'
    BY <1>1, <1>5, <1>6, HubKept, Facts DEF TypeOK, PublisherType, Typed
  <1>8. Connections'
    BY <1>1, <1>3, <1>5, HubKept DEF Typed, Connections
  <1>9. QED
    BY <1>1, <1>2, <1>7, <1>8, HubKept DEF Typed

LEMMA WriteTyped ==
    ASSUME Typed, NEW c \in Clients, Write(c)
    PROVE  Typed'
  <1>1. /\ client[c] = "writing" /\ client' = [client EXCEPT ![c] = "streaming"]
        /\ received' = [received EXCEPT ![c] = received[c] \o hand[c]]
        /\ hand' = [hand EXCEPT ![c] = <<>>]
        /\ UNCHANGED <<hubVars, joined, queue, closed>>
    BY DEF Write, ClientGoto
  <1>2. received[c] \o hand[c] \in Seq(Payloads) /\ <<>> \in Seq(Payloads)
    BY Facts, ConcatProperties
  <1>3. /\ client' \in [Clients -> ClientSteps] /\ hand' \in [Clients -> Seq(Payloads)]
        /\ received' \in [Clients -> Seq(Payloads)]
        /\ client'[c] = "streaming" /\ hand'[c] = <<>>
        /\ \A d \in Clients : d # c =>
               client'[d] = client[d] /\ hand'[d] = hand[d] /\ received'[d] = received[d]
    BY <1>1, <1>2, Facts DEF ClientSteps
  <1>4. TypeOK'
    BY <1>1, <1>3, HubKept DEF TypeOK, PublisherType, Typed
  <1>5. Connections'
    BY <1>1, <1>3, HubKept DEF Typed, Connections
  <1>6. QED
    BY <1>1, <1>4, <1>5, HubKept DEF Typed

LEMMA LeavingTyped ==
    ASSUME Typed, NEW c \in Clients,
           Heartbeat(c) \/ Leave(c) \/ Close(c) \/ Release(c)
    PROVE  /\ Typed'
           /\ UNCHANGED <<hubVars, hand, received, joined, queue>>
           /\ client'[c] \in {"streaming", "writing"} => client[c] \in {"streaming", "writing"}
           /\ client[c] = "gone" => client'[c] = "gone"
           /\ client[c] # "gone" /\ client[c] # "away"
           /\ \A d \in Clients : d # c => client'[d] = client[d]
  <1>1. /\ UNCHANGED <<hubVars, hand, received, joined, queue>>
        /\ \E s \in ClientSteps : client' = [client EXCEPT ![c] = s]
        /\ \/ client[c] \in {"streaming", "writing"} /\ closed' = closed
              /\ client' = [client EXCEPT ![c] = "leaving"]
           \/ client[c] = "streaming" /\ closed' = closed
              /\ client' = [client EXCEPT ![c] = "writing"]
           \/ client[c] = "leaving" /\ closed' = [closed EXCEPT ![c] = TRUE]
              /\ client' = [client EXCEPT ![c] = "closed"]
           \/ client[c] = "closed" /\ closed' = closed
              /\ client' = [client EXCEPT ![c] = "gone"]
    BY DEF Heartbeat, Leave, Close, Release, ClientGoto, ClientSteps
  <1>2. /\ client' \in [Clients -> ClientSteps] /\ closed' \in [Clients -> BOOLEAN]
        /\ \A d \in Clients : d # c => client'[d] = client[d] /\ closed'[d] = closed[d]
    BY <1>1, Facts
  <1>3. \/ client[c] \in {"streaming", "writing"} /\ closed'[c] = closed[c] /\ client'[c] = "leaving"
        \/ client[c] = "streaming" /\ closed'[c] = closed[c] /\ client'[c] = "writing"
        \/ client[c] = "leaving" /\ closed'[c] = TRUE /\ client'[c] = "closed"
        \/ client[c] = "closed" /\ closed'[c] = closed[c] /\ client'[c] = "gone"
    BY <1>1, Facts
  <1>4. TypeOK'
    BY <1>1, <1>2, HubKept DEF TypeOK, PublisherType, Typed
  <1>5. Connections'
    BY <1>1, <1>2, <1>3, HubKept DEF Typed, Connections
  <1>6. Typed'
    BY <1>1, <1>4, <1>5, HubKept DEF Typed
  <1>7. QED
    BY <1>1, <1>2, <1>3, <1>6

LEMMA StutterTyped ==
    ASSUME Typed, UNCHANGED vars
    PROVE  Typed'
  <1>1. /\ UNCHANGED <<subscriptions, publisher, published, client, hand, received, joined>>
        /\ UNCHANGED <<queue, closed>>
    BY DEF vars, hubVars, clientVars
  <1>2. QED
    BY <1>1 DEF Typed, TypeOK, Mutex, Publishes, Connections, Busy, Listed, Current

LEMMA StepTyped == Typed /\ [Next]_vars => Typed'
  <1> SUFFICES ASSUME Typed, [Next]_vars PROVE Typed'
    OBVIOUS
  <1>1. ASSUME NEW p \in Publishers, Begin(p) \/ Publish(p) PROVE Typed'
    BY <1>1, BeginTyped, LockTyped, EraseTyped, PushTyped, EndTyped DEF Publish
  <1>2. ASSUME NEW c \in Clients, Serve(c) PROVE Typed'
    BY <1>2, SubscribeTyped, PopTyped, WriteTyped, LeavingTyped DEF Serve
  <1>3. QED
    BY <1>1, <1>2, StutterTyped DEF Next

LEMMA SafeTyped == SafeSpec => []Typed
  <1>1. Init => Typed
    BY InitTyped
  <1>2. Typed /\ [Next]_vars => Typed'
    BY StepTyped
  <1>3. QED
    BY <1>1, <1>2, PTL DEF SafeSpec

\* The hub's list and iterators are what they seem: no subscription is
\* listed twice, and whatever publish erases and whoever subscribes
\* meanwhile, no iterator runs past the end.
THEOREM TypeCorrect == SafeSpec => []TypeOK
  <1>1. Typed => TypeOK
    BY DEF Typed
  <1>2. QED
    BY <1>1, SafeTyped, PTL

-----------------------------------------------------------------------------
(* What a client misses.                                                   *)

LEMMA PayloadsAreNumbers ==
    ASSUME NEW s \in Seq(Payloads)
    PROVE  Len(s) \in Nat /\ \A i \in 1 .. Len(s) : s[i] \in Nat
  <1>1. Len(s) \in Nat /\ \A i \in 1 .. Len(s) : s[i] \in Payloads
    OBVIOUS
  <1>2. \A m \in Payloads : m \in Nat
    BY DEF Payloads
  <1>3. QED
    BY <1>1, <1>2

LEMMA FreshInLine ==
    ASSUME NEW n \in Nat
    PROVE  InLine(n, n, <<>>, <<>>)
  <1>1. Len(<<>>) = 0
    OBVIOUS
  <1>2. QED
    BY <1>1 DEF InLine, Increasing

\* A payload more, and room for it.
LEMMA OfferedInLine ==
    ASSUME NEW first \in Nat, NEW last \in Nat, NEW items \in Seq(Payloads), NEW seen \in Seq(Payloads),
           InLine(first, last, items, seen), last + 1 \in Payloads
    PROVE  InLine(first, last + 1, Append(items, last + 1), seen)
  <1> DEFINE more == Append(items, last + 1)
  <1>1. /\ Len(more) = Len(items) + 1 /\ Len(items) \in Nat
        /\ \A i \in 1 .. Len(items) : more[i] = items[i]
        /\ more[Len(items) + 1] = last + 1
    BY AppendFacts
  <1> HIDE DEF more
  <1>2. (last + 1) - Len(more) = last - Len(items)
    BY <1>1
  <1>3. \A i \in 1 .. Len(more) : more[i] = ((last + 1) - Len(more)) + i
    <2>1. ASSUME NEW i \in 1 .. Len(items) PROVE more[i] = (last - Len(items)) + i
      BY <1>1 DEF InLine
    <2>2. (last - Len(items)) + (Len(items) + 1) = last + 1
      BY <1>1
    <2>3. \A i \in 1 .. Len(more) : i \in 1 .. Len(items) \/ i = Len(items) + 1
      BY <1>1
    <2>4. QED
      BY <1>1, <1>2, <2>1, <2>2, <2>3
  <1>4. \A m \in Nat : m + MaxSize <= last => m + MaxSize <= last + 1
    BY ConstantFacts
  <1>5. InLine(first, last + 1, more, seen)
    BY <1>2, <1>3, <1>4 DEF InLine
  <1>6. QED
    BY <1>5 DEF more

\* A payload more for a full queue: the oldest is missed.
LEMMA MissedInLine ==
    ASSUME NEW first \in Nat, NEW last \in Nat, NEW items \in Seq(Payloads), NEW seen \in Seq(Payloads),
           InLine(first, last, items, seen), last + 1 \in Payloads,
           items # <<>>, Len(items) = MaxSize
    PROVE  InLine(first, last + 1, Append(Tail(items), last + 1), seen)
  <1> DEFINE rest == Tail(items)
             more == Append(rest, last + 1)
             n == Len(items)
             base == last - n
  <1>1. /\ rest \in Seq(Payloads) /\ n \in Nat /\ n >= 1 /\ Len(rest) = n - 1
        /\ \A i \in 1 .. n - 1 : rest[i] = items[i + 1]
    BY TailFacts
  <1>2. /\ Len(more) = Len(rest) + 1
        /\ \A i \in 1 .. Len(rest) : more[i] = rest[i]
        /\ more[Len(rest) + 1] = last + 1
    BY <1>1, AppendFacts
  <1>3. /\ first <= base
        /\ \A i \in 1 .. n : items[i] = base + i
        /\ Increasing(seen)
        /\ \A i \in 1 .. Len(seen) : seen[i] > first /\ seen[i] <= base
        /\ \A m \in Nat : m > first /\ m <= base /\ (\A i \in 1 .. Len(seen) : seen[i] # m)
                              => m + MaxSize <= last
    BY DEF InLine
  <1> HIDE DEF rest, more
  <1>4. Len(more) = n /\ (last + 1) - Len(more) = base + 1 /\ base \in Int /\ n = MaxSize
    BY <1>1, <1>2
  <1>5. \A i \in 1 .. Len(more) : more[i] = (base + 1) + i
    <2>1. ASSUME NEW i \in 1 .. n - 1 PROVE more[i] = (base + 1) + i
      <3>1. i + 1 \in 1 .. n /\ i \in 1 .. Len(rest)
        BY <1>1, <2>1
      <3>2. more[i] = items[i + 1] /\ items[i + 1] = base + (i + 1)
        BY <1>1, <1>2, <1>3, <3>1
      <3>3. QED
        BY <1>4, <3>2
    <2>2. more[n] = (base + 1) + n
      <3>1. Len(rest) + 1 = n /\ (base + 1) + n = last + 1
        BY <1>1
      <3>2. QED
        BY <1>2, <3>1
    <2>3. \A i \in 1 .. n : i \in 1 .. n - 1 \/ i = n
      BY <1>1
    <2>4. QED
      BY <1>4, <2>1, <2>2, <2>3
  <1>6. \A i \in 1 .. Len(seen) : seen[i] > first /\ seen[i] <= base + 1
    <2>1. \A i \in 1 .. Len(seen) : seen[i] \in Int
      BY PayloadsAreNumbers
    <2>2. QED
      BY <1>3, <1>4, <2>1
  <1>7. \A m \in Nat : m > first /\ m <= base + 1 /\ (\A i \in 1 .. Len(seen) : seen[i] # m)
                           => m + MaxSize <= last + 1
    <2>1. \A m \in Nat : m <= base + 1 => m <= base \/ m = base + 1
      BY <1>4
    <2>2. base + 1 + MaxSize = last + 1
      BY <1>1, <1>4
    <2>3. \A m \in Nat : m + MaxSize <= last => m + MaxSize <= last + 1
      BY ConstantFacts
    <2> HIDE DEF base
    <2>4. QED
      BY <1>3, <1>4, <2>1, <2>2, <2>3
  <1>8. first <= base + 1
    BY <1>3, <1>4
  <1> HIDE DEF base, n
  <1>9. InLine(first, last + 1, more, seen)
    BY <1>3, <1>4, <1>5, <1>6, <1>7, <1>8 DEF InLine
  <1>10. QED
    BY <1>9 DEF more, rest

\* The oldest payload of the queue is popped.
LEMMA PoppedInLine ==
    ASSUME NEW first \in Nat, NEW last \in Nat, NEW items \in Seq(Payloads), NEW seen \in Seq(Payloads),
           InLine(first, last, items, seen), items # <<>>
    PROVE  InLine(first, last, Tail(items), Append(seen, Head(items)))
  <1> DEFINE rest == Tail(items)
             more == Append(seen, Head(items))
             n == Len(items)
             base == last - n
  <1>1. /\ rest \in Seq(Payloads) /\ n \in Nat /\ n >= 1 /\ Len(rest) = n - 1
        /\ \A i \in 1 .. n - 1 : rest[i] = items[i + 1]
        /\ Head(items) = items[1] /\ Head(items) \in Payloads
    BY TailFacts
  <1>2. /\ first <= base
        /\ \A i \in 1 .. n : items[i] = base + i
        /\ Increasing(seen)
        /\ \A i \in 1 .. Len(seen) : seen[i] > first /\ seen[i] <= base
        /\ \A m \in Nat : m > first /\ m <= base /\ (\A i \in 1 .. Len(seen) : seen[i] # m)
                              => m + MaxSize <= last
    BY DEF InLine
  <1>3. Head(items) = base + 1
    BY <1>1, <1>2
  <1>4. /\ Len(more) = Len(seen) + 1 /\ Len(seen) \in Nat
        /\ \A i \in 1 .. Len(seen) : more[i] = seen[i]
        /\ more[Len(seen) + 1] = base + 1
    BY <1>1, <1>3, AppendFacts
  <1>5. \A i \in 1 .. Len(seen) : seen[i] \in Int
    BY PayloadsAreNumbers
  <1> HIDE DEF rest, more
  <1>6. last - Len(rest) = base + 1 /\ base \in Int
    BY <1>1
  <1>7. \A i \in 1 .. Len(rest) : rest[i] = (base + 1) + i
    <2>1. ASSUME NEW i \in 1 .. Len(rest) PROVE rest[i] = (base + 1) + i
      <3>1. i + 1 \in 1 .. n /\ i \in 1 .. n - 1
        BY <1>1, <2>1
      <3>2. rest[i] = base + (i + 1)
        BY <1>1, <1>2, <3>1
      <3>3. QED
        BY <1>6, <3>2
    <2>2. QED
      BY <2>1
  <1> HIDE DEF base, n
  <1>8. \A i \in 1 .. Len(more) : i \in 1 .. Len(seen) \/ i = Len(seen) + 1
    BY <1>4
  <1>9. Increasing(more)
    <2>1. ASSUME NEW i \in 1 .. Len(more), NEW j \in 1 .. Len(more), i < j PROVE more[i] < more[j]
      <3>1. i \in 1 .. Len(seen)
        BY <1>4, <2>1
      <3>2. CASE j \in 1 .. Len(seen)
        BY <1>2, <1>4, <2>1, <3>1, <3>2 DEF Increasing
      <3>3. CASE j = Len(seen) + 1
        <4>1. more[i] <= base /\ more[i] \in Int /\ more[j] = base + 1
          BY <1>2, <1>4, <1>5, <3>1, <3>3
        <4>2. QED
          BY <1>6, <4>1
      <3>4. QED
        BY <1>8, <3>2, <3>3
    <2>2. QED
      BY <2>1 DEF Increasing
  <1>10. \A i \in 1 .. Len(more) : more[i] > first /\ more[i] <= base + 1
    <2>1. \A i \in 1 .. Len(seen) : more[i] > first /\ more[i] <= base + 1
      BY <1>2, <1>4, <1>5, <1>6
    <2>2. base + 1 > first /\ base + 1 <= base + 1
      BY <1>2, <1>6
    <2>3. QED
      BY <1>4, <1>8, <2>1, <2>2
  <1>11. \A m \in Nat : m > first /\ m <= base + 1 /\ (\A i \in 1 .. Len(more) : more[i] # m)
                            => m + MaxSize <= last
    <2>1. ASSUME NEW m \in Nat, m > first, m <= base + 1, \A i \in 1 .. Len(more) : more[i] # m
          PROVE  m + MaxSize <= last
      <3>1. Len(seen) + 1 \in 1 .. Len(more) /\ \A i \in 1 .. Len(seen) : i \in 1 .. Len(more)
        BY <1>4
      <3>2. m # base + 1 /\ \A i \in 1 .. Len(seen) : seen[i] # m
        BY <1>4, <2>1, <3>1
      <3>3. m <= base
        BY <1>6, <2>1, <3>2
      <3>4. QED
        BY <1>2, <2>1, <3>2, <3>3
    <2>2. QED
      BY <2>1
  <1>12. first <= base + 1
    BY <1>2, <1>6
  <1>13. InLine(first, last, rest, more)
    BY <1>6, <1>7, <1>9, <1>10, <1>11, <1>12 DEF InLine
  <1>14. QED
    BY <1>13 DEF rest, more

\* Which clients a publish has still to come to.
LEMMA NobodyAwaits ==
    ASSUME Typed, \A q \in Publishers : ~Busy(q)
    PROVE  \A c : Offered(c) = published
  BY DEF Offered, Awaits, Busy

LEMMA BeginOffered ==
    ASSUME Typed, NEW p \in Publishers, Begin(p), NEW c, Listed(c)
    PROVE  Offered(c)' = Offered(c)
  <1> DEFINE dead == {d \in Range(subscriptions) : Expired(d)}
  <1>1. /\ \A q \in Publishers : ~Busy(q)
        /\ published' = published + 1
        /\ publisher' = [publisher EXCEPT ![p] = Publishing(published', dead)]
        /\ UNCHANGED subscriptions
    BY DEF Begin, HubIsFree, HubFree, Busy
  <1>2. publisher'[p] = Publishing(published', dead)
    BY <1>1, Facts
  <1> HIDE DEF dead
  <1>3. publisher'[p].step # "idle" /\ publisher'[p].at = 1
    BY <1>2 DEF Publishing
  <1>4. PICK i \in 1 .. Len(subscriptions) : subscriptions[i] = c
    BY DEF Listed
  <1>5. i \in 1 .. Len(subscriptions') /\ subscriptions'[i] = c /\ i >= 1
    BY <1>1, <1>4
  <1>6. Awaits(c)'
    BY <1>3, <1>5 DEF Awaits
  <1>7. Offered(c)' = published' - 1
    BY <1>6 DEF Offered
  <1>8. published \in Nat
    BY Facts
  <1>9. QED
    BY <1>1, <1>7, <1>8, NobodyAwaits

LEMMA LockOffered ==
    ASSUME Typed, NEW p \in Publishers, Lock(p), NEW c
    PROVE  Offered(c)' = Offered(c)
  <1>1. /\ publisher[p].step = "visit"
        /\ publisher' = [publisher EXCEPT ![p].step = "push", ![p].holds = {Current(p)}]
        /\ UNCHANGED <<subscriptions, published>>
    BY DEF Lock, Visiting
  <1>2. publisher[p] \in PublisherType /\ publisher \in [Publishers -> PublisherType]
    BY Facts
  <1>3. /\ publisher'[p].step = "push" /\ publisher'[p].at = publisher[p].at
        /\ \A q \in Publishers : q # p => publisher'[q] = publisher[q]
    <2>1. publisher'[p] = [publisher[p] EXCEPT !.step = "push", !.holds = {Current(p)}]
      BY <1>1, <1>2
    <2>2. publisher'[p].step = "push" /\ publisher'[p].at = publisher[p].at
      BY <1>2, <2>1 DEF PublisherType
    <2>3. QED
      BY <1>1, <1>2, <2>2
  <1>4. \A q \in Publishers : /\ publisher'[q].step # "idle" <=> publisher[q].step # "idle"
                              /\ publisher'[q].at = publisher[q].at
    BY <1>1, <1>3
  <1>5. QED
    BY <1>1, <1>4 DEF Offered, Awaits

LEMMA EraseOffered ==
    ASSUME Typed, NEW p \in Publishers, Erase(p), NEW c, c # Current(p)
    PROVE  Offered(c)' = Offered(c)
  <1> DEFINE n == publisher[p].at
  <1>1. n \in 1 .. Len(subscriptions) /\ publisher[p].step = "visit" /\ UNCHANGED <<publisher, published>>
    BY ErasedFacts
  <1>2. \A q \in Publishers : q # p => publisher[q].step = "idle"
    BY <1>1 DEF Typed, Mutex, Busy
  <1>3. Awaits(c) <=> \E i \in 1 .. Len(subscriptions) : subscriptions[i] = c /\ i >= n
    BY <1>1, <1>2 DEF Awaits
  <1>4. Awaits(c)' <=> \E i \in 1 .. Len(subscriptions') : subscriptions'[i] = c /\ i >= n
    BY <1>1, <1>2 DEF Awaits
  <1>5. /\ n \in Nat /\ n >= 1 /\ n <= Len(subscriptions) /\ Len(subscriptions) \in Nat
        /\ Len(subscriptions') = Len(subscriptions) - 1
        /\ \A i \in n .. Len(subscriptions) - 1 : subscriptions'[i] = subscriptions[i + 1]
        /\ c # subscriptions[n]
    <2>1. Len(subscriptions) \in Nat /\ c # subscriptions[n]
      BY Facts DEF Current
    <2>2. /\ Len(subscriptions') = Len(subscriptions) - 1
          /\ \A i \in n .. Len(subscriptions) - 1 : subscriptions'[i] = subscriptions[i + 1]
      BY ErasedFacts
    <2> HIDE DEF n
    <2>3. QED
      BY <1>1, <2>1, <2>2
  <1> HIDE DEF n
  <1>6. ASSUME NEW i \in 1 .. Len(subscriptions), subscriptions[i] = c, i >= n PROVE Awaits(c)'
    <2>1. i # n
      BY <1>5, <1>6
    <2>2. i - 1 \in n .. Len(subscriptions) - 1 /\ i - 1 \in 1 .. Len(subscriptions')
          /\ (i - 1) + 1 = i /\ i - 1 >= n
      BY <1>5, <1>6, <2>1
    <2>3. QED
      BY <1>4, <1>5, <1>6, <2>2
  <1>7. ASSUME NEW i \in 1 .. Len(subscriptions'), subscriptions'[i] = c, i >= n PROVE Awaits(c)
    <2>1. i \in n .. Len(subscriptions) - 1 /\ i + 1 \in 1 .. Len(subscriptions) /\ i + 1 >= n
      BY <1>5, <1>7
    <2>2. QED
      BY <1>3, <1>5, <1>7, <2>1
  <1>8. Awaits(c)' <=> Awaits(c)
    BY <1>3, <1>4, <1>6, <1>7
  <1>9. QED
    BY <1>1, <1>8 DEF Offered

LEMMA PushOffered ==
    ASSUME Typed, NEW p \in Publishers, Push(p), NEW c
    PROVE  /\ c # Current(p) => Offered(c)' = Offered(c)
           /\ c = Current(p) => Offered(c) + 1 = published /\ Offered(c)' = published
  <1> DEFINE n == publisher[p].at
  <1>1. /\ publisher[p].step = "push" /\ publisher'[p].step = "visit" /\ publisher'[p].at = n + 1
        /\ \A q \in Publishers : q # p => publisher'[q] = publisher[q] /\ ~Busy(q)
        /\ UNCHANGED <<subscriptions, published>>
        /\ n <= Len(subscriptions)
    BY PushFacts
  <1>2. n \in Nat /\ n >= 1 /\ Len(subscriptions) \in Nat /\ published \in Nat
    BY Facts
  <1>3. Current(p) = subscriptions[n]
    BY DEF Current
  <1>4. Awaits(c) <=> \E i \in 1 .. Len(subscriptions) : subscriptions[i] = c /\ i >= n
    BY <1>1 DEF Awaits, Busy
  <1>5. Awaits(c)' <=> \E i \in 1 .. Len(subscriptions) : subscriptions[i] = c /\ i >= n + 1
    BY <1>1 DEF Awaits, Busy
  <1> HIDE DEF n
  <1>6. \A i \in 1 .. Len(subscriptions) : i >= n <=> i = n \/ i >= n + 1
    BY <1>2
  <1>7. n \in 1 .. Len(subscriptions)
    BY <1>1, <1>2
  <1>8. c # Current(p) => (Awaits(c)' <=> Awaits(c))
    BY <1>3, <1>4, <1>5, <1>6
  <1>9. c = Current(p) => Awaits(c) /\ ~Awaits(c)'
    <2>1. \A i \in 1 .. Len(subscriptions) : subscriptions[i] = subscriptions[n] => i = n
      BY <1>7, Facts
    <2>2. ~(n >= n + 1)
      BY <1>2
    <2>3. QED
      BY <1>3, <1>4, <1>5, <1>6, <1>7, <2>1, <2>2
  <1>10. QED
    BY <1>1, <1>2, <1>8, <1>9 DEF Offered

LEMMA EndOffered ==
    ASSUME Typed, NEW p \in Publishers, End(p), NEW c
    PROVE  Offered(c)' = Offered(c)
  <1>1. /\ publisher[p].at = Len(subscriptions) + 1
        /\ publisher'[p].step = "idle"
        /\ \A q \in Publishers : q # p => publisher'[q] = publisher[q] /\ ~Busy(q)
        /\ UNCHANGED <<subscriptions, published>>
    BY EndFacts DEF NotPublishing, Publishing
  <1>2. ~Awaits(c)'
    BY <1>1 DEF Awaits, Busy
  <1>3. ~Awaits(c)
    <2>1. \A i \in 1 .. Len(subscriptions) : ~(i >= publisher[p].at)
      <3>1. Len(subscriptions) \in Nat
        BY Facts
      <3>2. QED
        BY <1>1, <3>1
    <2>2. QED
      BY <1>1, <2>1 DEF Awaits, Busy
  <1>4. QED
    BY <1>1, <1>2, <1>3 DEF Offered

LEMMA SubscribeOffered ==
    ASSUME Typed, NEW d \in Clients, Subscribe(d), NEW c
    PROVE  Offered(c)' = Offered(c) /\ Offered(c) = published
  <1>1. /\ \A q \in Publishers : publisher[q].step = "idle"
        /\ UNCHANGED <<publisher, published>>
    BY DEF Subscribe, HubFree
  <1>2. QED
    BY <1>1 DEF Offered, Awaits

LEMMA SameOffered ==
    ASSUME UNCHANGED hubVars, NEW c
    PROVE  Offered(c)' = Offered(c)
  BY DEF hubVars, Offered, Awaits

\* The lines of the connections that a step leaves alone.
LEMMA LineKept ==
    ASSUME Lines, NEW c \in Clients, Connected(c)' => Connected(c),
           Connected(c)' => Offered(c)' = Offered(c),
           joined'[c] = joined[c], queue'[c] = queue[c], hand'[c] = hand[c], received'[c] = received[c]
    PROVE  /\ Increasing(received'[c])
           /\ Connected(c)' => InLine(joined'[c], Offered(c)', queue'[c], Seen(c)')
  <1>1. Seen(c)' = Seen(c)
    BY DEF Seen
  <1>2. QED
    BY <1>1 DEF Lines

LEMMA LineFacts ==
    ASSUME Typed, NEW c \in Clients
    PROVE  /\ joined[c] \in Nat /\ queue[c] \in Seq(Payloads) /\ Len(queue[c]) <= MaxSize
           /\ received[c] \in Seq(Payloads) /\ hand[c] \in Seq(Payloads) /\ Seen(c) \in Seq(Payloads)
           /\ Connected(c) => Listed(c) /\ ~closed[c] /\ client[c] # "gone"
  <1>1. /\ joined[c] \in Nat /\ queue[c] \in Seq(Payloads) /\ Len(queue[c]) <= MaxSize
        /\ received[c] \in Seq(Payloads) /\ hand[c] \in Seq(Payloads)
    BY Facts
  <1>2. Seen(c) \in Seq(Payloads)
    BY <1>1, ConcatProperties DEF Seen
  <1>3. Connected(c) => Listed(c) /\ ~closed[c] /\ client[c] # "gone"
    BY DEF Connected, Typed, Connections
  <1>4. QED
    BY <1>1, <1>2, <1>3

LEMMA PublishKeepsLines ==
    ASSUME Typed, Lines, NEW p \in Publishers, Begin(p) \/ Lock(p) \/ Erase(p) \/ End(p)
    PROVE  Lines'
  <1>1. UNCHANGED <<client, hand, received, joined, queue>>
    BY DEF Begin, Lock, Erase, End, clientVars
  <1>2. ASSUME NEW c \in Clients, Connected(c) PROVE Offered(c)' = Offered(c)
    <2>1. Erase(p) => c # Current(p)
      BY <1>2, LineFacts, ErasedFacts DEF Expired
    <2>2. QED
      BY <1>2, <2>1, LineFacts, BeginOffered, LockOffered, EraseOffered, EndOffered
  <1>3. \A c \in Clients : Connected(c)' <=> Connected(c)
    BY <1>1 DEF Connected
  <1>4. ASSUME NEW c \in Clients
        PROVE  /\ Increasing(received'[c])
               /\ Connected(c)' => InLine(joined'[c], Offered(c)', queue'[c], Seen(c)')
    BY <1>1, <1>2, <1>3, LineKept
  <1>5. QED
    BY <1>4 DEF Lines

LEMMA PushKeepsLines ==
    ASSUME Typed, Lines, NEW p \in Publishers, Push(p)
    PROVE  Lines'
  <1> PICK e \in Clients : e = Current(p)
    BY PushFacts
  <1> DEFINE pushed == Offer(queue[e], closed[e], published)
  <1>1. /\ e \in Clients /\ published \in Payloads
        /\ queue' = [queue EXCEPT ![e] = pushed]
        /\ UNCHANGED <<client, hand, received, joined>>
    BY PushFacts DEF clientVars
  <1>2. queue \in [Clients -> Seq(Payloads)]
    BY Facts
  <1> HIDE DEF pushed
  <1>3. queue'[e] = pushed /\ \A c \in Clients : c # e => queue'[c] = queue[c]
    BY <1>1, <1>2
  <1>4. \A c : Connected(c)' <=> Connected(c)
    BY <1>1 DEF Connected
  <1>5. ASSUME NEW c \in Clients, c # e
        PROVE  /\ Increasing(received'[c])
               /\ Connected(c)' => InLine(joined'[c], Offered(c)', queue'[c], Seen(c)')
    <2>1. Offered(c)' = Offered(c)
      BY <1>5, PushOffered
    <2>2. QED
      BY <1>1, <1>3, <1>4, <1>5, <2>1, LineKept
  <1>6. ASSUME Connected(e)
        PROVE  InLine(joined'[e], Offered(e)', queue'[e], Seen(e)')
    <2>1. /\ joined[e] \in Nat /\ queue[e] \in Seq(Payloads) /\ Len(queue[e]) <= MaxSize
          /\ Seen(e) \in Seq(Payloads) /\ closed[e] = FALSE
      <3>1. closed[e] \in BOOLEAN
        BY <1>1, Facts
      <3>2. QED
        BY <1>6, <3>1, LineFacts
    <2>2. Offered(e) + 1 = published /\ Offered(e)' = published
      BY PushOffered
    <2>3. Offered(e) \in Nat
      <3>1. published \in Nat /\ published >= 1
        BY <1>1 DEF Payloads
      <3>2. Offered(e) = published \/ Offered(e) = published - 1
        BY DEF Offered
      <3>3. QED
        BY <3>1, <3>2
    <2>4. InLine(joined[e], Offered(e), queue[e], Seen(e))
      BY <1>1, <1>6 DEF Lines
    <2>5. /\ Len(queue[e]) < MaxSize => pushed = Append(queue[e], published)
          /\ ~(Len(queue[e]) < MaxSize) =>
                 queue[e] # <<>> /\ Len(queue[e]) = MaxSize
                 /\ pushed = Append(Tail(queue[e]), published)
      <3>1. queue[e] \in Seq(Payloads) /\ Len(queue[e]) <= MaxSize /\ FALSE \in BOOLEAN
        BY <2>1
      <3>2. pushed = Offer(queue[e], FALSE, published)
        BY <2>1 DEF pushed
      <3>3. QED
        BY <1>1, <3>1, <3>2, OfferFacts
    <2>6. Offered(e) + 1 \in Payloads
      BY <1>1, <2>2
    <2>7. InLine(joined[e], Offered(e) + 1, pushed, Seen(e))
      <3>1. CASE Len(queue[e]) < MaxSize
        <4>1. pushed = Append(queue[e], Offered(e) + 1)
          BY <2>2, <2>5, <3>1
        <4>2. QED
          BY <2>1, <2>3, <2>4, <2>6, <4>1, OfferedInLine
      <3>2. CASE ~(Len(queue[e]) < MaxSize)
        <4>1. /\ pushed = Append(Tail(queue[e]), Offered(e) + 1)
              /\ queue[e] # <<>> /\ Len(queue[e]) = MaxSize
          BY <2>2, <2>5, <3>2
        <4>2. QED
          BY <2>1, <2>3, <2>4, <2>6, <4>1, MissedInLine
      <3>3. QED
        BY <3>1, <3>2
    <2>8. Seen(e)' = Seen(e) /\ joined'[e] = joined[e]
      BY <1>1 DEF Seen
    <2>9. QED
      BY <1>3, <2>2, <2>7, <2>8
  <1>7. Increasing(received'[e])
    BY <1>1 DEF Lines
  <1>8. QED
    BY <1>1, <1>4, <1>5, <1>6, <1>7 DEF Lines

LEMMA SubscribeKeepsLines ==
    ASSUME Typed, Lines, NEW e \in Clients, Subscribe(e)
    PROVE  Lines'
  <1>1. /\ client[e] = "away" /\ client' = [client EXCEPT ![e] = "streaming"]
        /\ joined' = [joined EXCEPT ![e] = published]
        /\ UNCHANGED <<hand, received, queue>>
    BY DEF Subscribe, ClientGoto
  <1>2. /\ joined'[e] = published
        /\ \A c \in Clients : c # e => client'[c] = client[c] /\ joined'[c] = joined[c]
    BY <1>1, Facts
  <1>3. ASSUME NEW c \in Clients, c # e
        PROVE  /\ Increasing(received'[c])
               /\ Connected(c)' => InLine(joined'[c], Offered(c)', queue'[c], Seen(c)')
    <2>1. Connected(c)' => Connected(c)
      BY <1>2, <1>3 DEF Connected
    <2>2. Offered(c)' = Offered(c)
      BY SubscribeOffered
    <2>3. QED
      BY <1>1, <1>2, <1>3, <2>1, <2>2, LineKept
  <1>4. queue[e] = <<>> /\ hand[e] = <<>> /\ received[e] = <<>>
    BY <1>1 DEF Typed, Connections
  <1>5. Seen(e)' = <<>> /\ queue'[e] = <<>> /\ received'[e] = <<>>
    <2>1. Seen(e)' = received[e] \o hand[e]
      BY <1>1 DEF Seen
    <2>2. <<>> \in Seq(Payloads)
      OBVIOUS
    <2>3. <<>> \o <<>> = <<>>
      BY <2>2, ConcatEmptySeq
    <2>4. QED
      BY <1>1, <1>4, <2>1, <2>3
  <1>6. Offered(e)' = published /\ published \in Nat
    BY SubscribeOffered, Facts
  <1>7. InLine(joined'[e], Offered(e)', queue'[e], Seen(e)') /\ Increasing(received'[e])
    <2>1. InLine(published, published, <<>>, <<>>)
      BY <1>6, FreshInLine
    <2>2. Increasing(<<>>)
      BY DEF Increasing
    <2>3. QED
      BY <1>2, <1>5, <1>6, <2>1, <2>2
  <1>8. QED
    BY <1>3, <1>7 DEF Lines

LEMMA PopKeepsLines ==
    ASSUME Typed, Lines, NEW e \in Clients, Pop(e)
    PROVE  Lines'
  <1>1. /\ client[e] = "streaming" /\ client' = [client EXCEPT ![e] = "writing"]
        /\ queue[e] # <<>>
        /\ hand' = [hand EXCEPT ![e] = <<Head(queue[e])>>]
        /\ queue' = [queue EXCEPT ![e] = Tail(queue[e])]
        /\ UNCHANGED <<hubVars, received, joined>>
    BY DEF Pop, ClientGoto
  <1>2. /\ hand'[e] = <<Head(queue[e])>> /\ queue'[e] = Tail(queue[e])
        /\ \A c \in Clients : c # e =>
               client'[c] = client[c] /\ hand'[c] = hand[c] /\ queue'[c] = queue[c]
    BY <1>1, Facts
  <1>3. ASSUME NEW c \in Clients, c # e
        PROVE  /\ Increasing(received'[c])
               /\ Connected(c)' => InLine(joined'[c], Offered(c)', queue'[c], Seen(c)')
    <2>1. Connected(c)' => Connected(c)
      BY <1>2, <1>3 DEF Connected
    <2>2. Offered(c)' = Offered(c)
      BY <1>1, SameOffered
    <2>3. QED
      BY <1>1, <1>2, <1>3, <2>1, <2>2, LineKept
  <1>4. /\ joined[e] \in Nat /\ queue[e] \in Seq(Payloads) /\ received[e] \in Seq(Payloads)
        /\ Seen(e) \in Seq(Payloads)
    BY LineFacts
  <1>5. Head(queue[e]) \in Payloads
    BY <1>1, <1>4, TailFacts
  <1>6. Seen(e)' = Append(Seen(e), Head(queue[e]))
    <2>1. hand[e] = <<>>
      BY <1>1 DEF Typed, Connections
    <2>2. Seen(e) = received[e]
      BY <1>4, <2>1, ConcatEmptySeq DEF Seen
    <2>3. Seen(e)' = received[e] \o <<Head(queue[e])>>
      BY <1>1, <1>2 DEF Seen
    <2>4. QED
      BY <1>4, <1>5, <2>2, <2>3, AppendIsConcat
  <1>7. InLine(joined[e], Offered(e), queue[e], Seen(e))
    BY <1>1 DEF Lines, Connected
  <1>8. Offered(e) \in Nat
    <2>1. published \in Nat
      BY Facts
    <2>2. Awaits(e) => published >= 1
      BY DEF Awaits, Typed, Publishes, Busy
    <2>3. QED
      BY <2>1, <2>2 DEF Offered
  <1>9. InLine(joined[e], Offered(e), Tail(queue[e]), Append(Seen(e), Head(queue[e])))
    BY <1>1, <1>4, <1>7, <1>8, PoppedInLine
  <1>10. Offered(e)' = Offered(e)
    BY <1>1, SameOffered
  <1>11. /\ Increasing(received'[e])
         /\ InLine(joined'[e], Offered(e)', queue'[e], Seen(e)')
    BY <1>1, <1>2, <1>6, <1>9, <1>10 DEF Lines
  <1>12. QED
    BY <1>3, <1>11 DEF Lines

LEMMA WriteKeepsLines ==
    ASSUME Typed, Lines, NEW e \in Clients, Write(e)
    PROVE  Lines'
  <1>1. /\ client[e] = "writing" /\ client' = [client EXCEPT ![e] = "streaming"]
        /\ received' = [received EXCEPT ![e] = Seen(e)]
        /\ hand' = [hand EXCEPT ![e] = <<>>]
        /\ UNCHANGED <<hubVars, joined, queue>>
    BY DEF Write, ClientGoto, Seen
  <1>2. /\ hand'[e] = <<>> /\ received'[e] = Seen(e)
        /\ \A c \in Clients : c # e =>
               client'[c] = client[c] /\ hand'[c] = hand[c] /\ received'[c] = received[c]
    BY <1>1, Facts
  <1>3. ASSUME NEW c \in Clients, c # e
        PROVE  /\ Increasing(received'[c])
               /\ Connected(c)' => InLine(joined'[c], Offered(c)', queue'[c], Seen(c)')
    <2>1. Connected(c)' => Connected(c)
      BY <1>2, <1>3 DEF Connected
    <2>2. Offered(c)' = Offered(c)
      BY <1>1, SameOffered
    <2>3. QED
      BY <1>1, <1>2, <1>3, <2>1, <2>2, LineKept
  <1>4. Seen(e) \in Seq(Payloads)
    BY LineFacts
  <1>5. Seen(e)' = Seen(e)
    <2>1. Seen(e)' = Seen(e) \o <<>>
      BY <1>2 DEF Seen
    <2>2. QED
      BY <1>4, <2>1, ConcatEmptySeq
  <1>6. InLine(joined[e], Offered(e), queue[e], Seen(e))
    BY <1>1 DEF Lines, Connected
  <1>7. Increasing(Seen(e))
    BY <1>6 DEF InLine
  <1>8. Offered(e)' = Offered(e)
    BY <1>1, SameOffered
  <1>9. QED
    BY <1>1, <1>2, <1>3, <1>5, <1>6, <1>7, <1>8 DEF Lines

LEMMA LeavingKeepsLines ==
    ASSUME Typed, Lines, NEW e \in Clients, Heartbeat(e) \/ Leave(e) \/ Close(e) \/ Release(e)
    PROVE  Lines'
  <1>1. /\ UNCHANGED <<hubVars, hand, received, joined, queue>>
        /\ client'[e] \in {"streaming", "writing"} => client[e] \in {"streaming", "writing"}
        /\ \A d \in Clients : d # e => client'[d] = client[d]
    BY LeavingTyped
  <1>2. ASSUME NEW c \in Clients
        PROVE  /\ Increasing(received'[c])
               /\ Connected(c)' => InLine(joined'[c], Offered(c)', queue'[c], Seen(c)')
    <2>1. Connected(c)' => Connected(c)
      BY <1>1, <1>2 DEF Connected
    <2>2. Offered(c)' = Offered(c)
      BY <1>1, SameOffered
    <2>3. QED
      BY <1>1, <2>1, <2>2, LineKept
  <1>3. QED
    BY <1>2 DEF Lines

LEMMA InitLines == Init => Lines
  <1> SUFFICES ASSUME Init PROVE Lines
    OBVIOUS
  <1>1. Increasing(<<>>)
    BY DEF Increasing
  <1>2. QED
    BY <1>1 DEF Init, Lines, Connected

LEMMA StepLines == Typed /\ Lines /\ [Next]_vars => Lines'
  <1> SUFFICES ASSUME Typed, Lines, [Next]_vars PROVE Lines'
    OBVIOUS
  <1>1. ASSUME NEW p \in Publishers, Begin(p) \/ Publish(p) PROVE Lines'
    BY <1>1, PublishKeepsLines, PushKeepsLines DEF Publish
  <1>2. ASSUME NEW c \in Clients, Serve(c) PROVE Lines'
    BY <1>2, SubscribeKeepsLines, PopKeepsLines, WriteKeepsLines, LeavingKeepsLines DEF Serve
  <1>3. ASSUME UNCHANGED vars PROVE Lines'
    <2>1. /\ UNCHANGED <<subscriptions, publisher, published, client, hand, received, joined, queue>>
      BY <1>3 DEF vars, hubVars, clientVars
    <2>2. \A c \in Clients : /\ Offered(c)' = Offered(c) /\ Seen(c)' = Seen(c)
                             /\ Connected(c)' <=> Connected(c)
      BY <2>1 DEF Offered, Awaits, Seen, Connected
    <2>3. QED
      BY <2>1, <2>2 DEF Lines
  <1>4. QED
    BY <1>1, <1>2, <1>3 DEF Next

LEMMA SafeLines == SafeSpec => [](Typed /\ Lines)
  <1>1. Init => Typed /\ Lines
    BY InitTyped, InitLines
  <1>2. Typed /\ Lines /\ [Next]_vars => (Typed /\ Lines)'
    BY StepTyped, StepLines
  <1>3. QED
    BY <1>1, <1>2, PTL DEF SafeSpec

\* What InLine says of the payloads got and waiting together.
LEMMA WholeLine ==
    ASSUME NEW first \in Nat, NEW last \in Nat, NEW items \in Seq(Payloads), NEW seen \in Seq(Payloads),
           InLine(first, last, items, seen), NEW line, line = seen \o items
    PROVE  /\ line \in Seq(Payloads)
           /\ \A i \in 1 .. Len(line) : line[i] \in first + 1 .. last
           /\ Increasing(line)
           /\ \A m \in first + 1 .. last : (\A i \in 1 .. Len(line) : line[i] # m) => m + MaxSize <= last
  <1> DEFINE n == Len(items)
             k == Len(seen)
             base == last - n
  <1>1. /\ first <= base
        /\ \A i \in 1 .. n : items[i] = base + i
        /\ \A i, j \in 1 .. k : i < j => seen[i] < seen[j]
        /\ \A i \in 1 .. k : seen[i] > first /\ seen[i] <= base
        /\ \A m \in Nat : m > first /\ m <= base /\ (\A i \in 1 .. k : seen[i] # m)
                              => m + MaxSize <= last
    BY DEF InLine, Increasing
  <1>2. n \in Nat /\ k \in Nat /\ \A i \in 1 .. k : seen[i] \in Nat
    BY PayloadsAreNumbers
  <1>3. /\ line \in Seq(Payloads) /\ Len(line) = k + n
        /\ \A i \in 1 .. k + n : line[i] = IF i <= k THEN seen[i] ELSE items[i - k]
    BY ConcatProperties
  <1>4. base \in Int /\ base + n = last
    BY <1>2
  <1> HIDE DEF n, k, base
  <1>5. ASSUME NEW i \in 1 .. k PROVE i \in 1 .. Len(line) /\ line[i] = seen[i]
    <2>1. i \in 1 .. k + n /\ i <= k
      BY <1>2
    <2>2. QED
      BY <1>3, <2>1
  <1>6. ASSUME NEW i \in 1 .. Len(line), ~(i <= k)
        PROVE  i - k \in 1 .. n /\ line[i] = base + (i - k)
    <2>1. i - k \in 1 .. n
      BY <1>2, <1>3, <1>6
    <2>2. line[i] = items[i - k]
      BY <1>3, <1>6
    <2>3. QED
      BY <1>1, <2>1, <2>2
  <1>7. \A i \in 1 .. Len(line) : i <= k => i \in 1 .. k
    BY <1>2
  <1>8. ASSUME NEW i \in 1 .. Len(line) PROVE line[i] \in first + 1 .. last
    <2>1. CASE i <= k
      <3>1. line[i] \in Nat /\ line[i] > first /\ line[i] <= base
        BY <1>1, <1>2, <1>5, <1>7, <2>1
      <3>2. QED
        BY <1>2, <1>4, <3>1
    <2>2. CASE ~(i <= k)
      <3>1. i - k \in Nat /\ i - k >= 1 /\ i - k <= n /\ line[i] = base + (i - k)
        BY <1>2, <1>6, <2>2
      <3>2. QED
        BY <1>1, <1>2, <1>4, <3>1
    <2>3. QED
      BY <2>1, <2>2
  <1>9. ASSUME NEW i \in 1 .. Len(line), NEW j \in 1 .. Len(line), i < j PROVE line[i] < line[j]
    <2>1. CASE j <= k
      <3>1. i \in 1 .. k /\ j \in 1 .. k
        BY <1>2, <1>9, <2>1
      <3>2. line[i] = seen[i] /\ line[j] = seen[j] /\ seen[i] < seen[j]
        BY <1>1, <1>5, <1>9, <3>1
      <3>3. QED
        BY <3>2
    <2>2. CASE i <= k /\ ~(j <= k)
      <3>1. line[i] \in Nat /\ line[i] <= base
        BY <1>1, <1>2, <1>5, <1>7, <2>2
      <3>2. j - k \in Nat /\ j - k >= 1 /\ line[j] = base + (j - k)
        BY <1>2, <1>6, <2>2
      <3>3. QED
        BY <1>4, <3>1, <3>2
    <2>3. CASE ~(i <= k) /\ ~(j <= k)
      <3>1. line[i] = base + (i - k) /\ line[j] = base + (j - k)
        BY <1>6, <2>3
      <3>2. QED
        BY <1>2, <1>4, <1>9, <3>1
    <2>4. i <= k \/ ~(j <= k)
      BY <1>2, <1>9
    <2>5. QED
      BY <2>1, <2>2, <2>3
  <1>10. ASSUME NEW m \in first + 1 .. last, \A i \in 1 .. Len(line) : line[i] # m
         PROVE  m + MaxSize <= last
    <2>1. m \in Nat /\ m > first /\ m <= last
      OBVIOUS
    <2>2. m <= base
      <3>1. SUFFICES ASSUME m > base PROVE FALSE
        BY <1>4, <2>1
      <3>2. m - base \in 1 .. n /\ (m - base) + k \in 1 .. Len(line)
            /\ ~((m - base) + k <= k) /\ ((m - base) + k) - k = m - base
        BY <1>2, <1>3, <1>4, <2>1, <3>1
      <3>3. line[(m - base) + k] = base + (m - base)
        BY <1>6, <3>2
      <3>4. base + (m - base) = m
        BY <1>4, <2>1
      <3>5. QED
        BY <1>10, <3>2, <3>3, <3>4
    <2>3. \A i \in 1 .. k : seen[i] # m
      BY <1>5, <1>10
    <2>4. QED
      BY <1>1, <2>1, <2>2, <2>3
  <1>11. QED
    BY <1>3, <1>8, <1>9, <1>10 DEF Increasing

LEMMA LinesHold == Typed /\ Lines => MissesOnlyWhenSlow
  <1> SUFFICES ASSUME Typed, Lines, NEW c \in Clients, client[c] \in {"streaming", "writing"}
               PROVE  /\ Range(Line(c)) \subseteq joined[c] + 1 .. Offered(c)
                      /\ \A i, j \in DOMAIN Line(c) : i < j => Line(c)[i] < Line(c)[j]
                      /\ \A m \in (joined[c] + 1 .. Offered(c)) \ Range(Line(c)) :
                             m + MaxSize <= Offered(c)
    BY DEF MissesOnlyWhenSlow
  <1> DEFINE line == Line(c)
             first == joined[c]
             last == Offered(c)
  <1>1. line = Seen(c) \o queue[c]
    BY DEF Line, Seen
  <1>2. first \in Nat /\ queue[c] \in Seq(Payloads) /\ Seen(c) \in Seq(Payloads)
    BY LineFacts
  <1>3. last \in Nat
    <2>1. published \in Nat
      BY Facts
    <2>2. Awaits(c) => published >= 1
      BY DEF Awaits, Typed, Publishes, Busy
    <2>3. QED
      BY <2>1, <2>2 DEF Offered
  <1>4. InLine(first, last, queue[c], Seen(c))
    BY DEF Lines, Connected
  <1> HIDE DEF line, first, last
  <1>5. /\ line \in Seq(Payloads)
        /\ \A i \in 1 .. Len(line) : line[i] \in first + 1 .. last
        /\ Increasing(line)
        /\ \A m \in first + 1 .. last : (\A i \in 1 .. Len(line) : line[i] # m) => m + MaxSize <= last
    <2> DEFINE items == queue[c]
               seen == Seen(c)
    <2>1. items \in Seq(Payloads) /\ seen \in Seq(Payloads)
      BY <1>2
    <2>2. line = seen \o items /\ InLine(first, last, items, seen)
      BY <1>1, <1>4
    <2> HIDE DEF items, seen
    <2>3. QED
      BY <1>2, <1>3, <2>1, <2>2, WholeLine
  <1>6. DOMAIN line = 1 .. Len(line) /\ Range(line) = {line[i] : i \in 1 .. Len(line)}
    <2>1. DOMAIN line = 1 .. Len(line)
      BY <1>5
    <2>2. QED
      BY <2>1 DEF Range
  <1>7. Range(line) \subseteq first + 1 .. last
    BY <1>5, <1>6
  <1>8. \A i, j \in DOMAIN line : i < j => line[i] < line[j]
    BY <1>5, <1>6 DEF Increasing
  <1>9. \A m \in (first + 1 .. last) \ Range(line) : m + MaxSize <= last
    BY <1>5, <1>6
  <1>10. QED
    BY <1>7, <1>8, <1>9 DEF line, first, last

\* A connected client misses, of what is published after it subscribed, only
\* payloads that MaxSize newer ones pushed out of its queue before it popped
\* them, and gets the others in order: the worker's lock keeps the pushes of
\* one publish together, and erasing an entry moves no other out of its way.
THEOREM SlowClientsMiss == SafeSpec => []MissesOnlyWhenSlow
  <1>1. QED
    BY SafeLines, LinesHold, PTL

LEMMA LinesAgree == Typed /\ Lines => SameOrder
  <1> SUFFICES ASSUME Typed, Lines, NEW c \in Clients, NEW d \in Clients,
                      NEW i \in DOMAIN received[c], NEW j \in DOMAIN received[c],
                      NEW k \in DOMAIN received[d], NEW l \in DOMAIN received[d],
                      i < j, received[c][i] = received[d][k], received[c][j] = received[d][l]
               PROVE  k < l
    BY DEF SameOrder
  <1>1. received[c] \in Seq(Payloads) /\ received[d] \in Seq(Payloads)
    BY Facts
  <1>2. /\ i \in 1 .. Len(received[c]) /\ j \in 1 .. Len(received[c])
        /\ k \in 1 .. Len(received[d]) /\ l \in 1 .. Len(received[d])
    BY <1>1
  <1>3. Increasing(received[c]) /\ Increasing(received[d])
    BY DEF Lines
  <1>4. received[c][i] < received[c][j] /\ received[c][i] \in Nat /\ received[c][j] \in Nat
    <2>1. received[c][i] \in Nat /\ received[c][j] \in Nat
      BY <1>1, <1>2, PayloadsAreNumbers
    <2>2. received[c][i] < received[c][j]
      BY <1>2, <1>3 DEF Increasing
    <2>3. QED
      BY <2>1, <2>2
  <1>5. l < k => received[d][l] < received[d][k]
    BY <1>2, <1>3 DEF Increasing
  <1>6. l # k /\ ~(l < k)
    BY <1>4, <1>5
  <1>7. k \in Nat /\ l \in Nat
    BY <1>2
  <1>8. QED
    BY <1>6, <1>7

\* Any two clients see what both see in the same order, that of the hub's
\* lock, whichever workers publish and whenever the clients came.
THEOREM OneOrder == SafeSpec => []SameOrder
  <1>1. QED
    BY SafeLines, LinesAgree, PTL

-----------------------------------------------------------------------------
(* Expired subscriptions go.                                               *)

LEMMA BehindBegins == Init => Behind
  BY DEF Init, NotPublishing, Publishing, Behind, Busy

\* What has expired stays so: nobody can get a pointer to it any more.
LEMMA ExpiredForGood ==
    ASSUME Typed, [Next]_vars, NEW c \in Clients, Expired(c)
    PROVE  Expired(c)'
  <1>1. client[c] = "gone" /\ \A q \in Publishers : c \notin publisher[q].holds
    BY DEF Expired
  <1>2. ASSUME NEW p \in Publishers, Begin(p) \/ Publish(p) PROVE client'[c] = "gone"
    BY <1>1, <1>2 DEF Begin, Publish, Lock, Erase, Push, End, clientVars
  <1>3. ASSUME NEW d \in Clients, Serve(d) PROVE client'[c] = "gone" /\ UNCHANGED publisher
    <2>1. UNCHANGED publisher
      BY <1>3 DEF Serve, Subscribe, Pop, Heartbeat, Write, Leave, Close, Release, hubVars
    <2>2. d # c
      BY <1>1, <1>3 DEF Serve, Subscribe, Pop, Heartbeat, Write, Leave, Close, Release, ClientGoto
    <2>3. \E s \in ClientSteps : client' = [client EXCEPT ![d] = s]
      BY <1>3 DEF Serve, Subscribe, Pop, Heartbeat, Write, Leave, Close, Release, ClientGoto, ClientSteps
    <2>4. QED
      BY <1>1, <2>1, <2>2, <2>3, Facts
  <1>4. ASSUME NEW p \in Publishers, Begin(p) \/ Publish(p), NEW q \in Publishers
        PROVE  c \notin publisher'[q].holds
    <2>1. publisher \in [Publishers -> PublisherType]
      BY Facts
    <2>2. CASE Begin(p)
      <3> DEFINE dead == {d \in Range(subscriptions) : Expired(d)}
      <3>1. publisher' = [publisher EXCEPT ![p] = Publishing(published', dead)]
        BY <2>2 DEF Begin
      <3> HIDE DEF dead
      <3>2. publisher'[q] = publisher[q] \/ publisher'[q] = Publishing(published', dead)
        BY <2>1, <3>1
      <3>3. QED
        BY <1>1, <3>2 DEF Publishing
    <2>3. CASE Lock(p)
      <3>1. /\ ~Expired(Current(p))
            /\ publisher' = [publisher EXCEPT ![p].step = "push", ![p].holds = {Current(p)}]
        BY <2>3 DEF Lock
      <3>2. c # Current(p)
        BY <3>1
      <3>3. publisher[p] \in PublisherType
        BY <2>1
      <3>4. publisher'[p].holds = {Current(p)}
        BY <2>1, <3>1, <3>3 DEF PublisherType
      <3>5. q # p => publisher'[q] = publisher[q]
        BY <2>1, <3>1
      <3>6. QED
        BY <1>1, <3>2, <3>4, <3>5
    <2>4. CASE Erase(p)
      BY <1>1, <2>4 DEF Erase
    <2>5. CASE Push(p)
      <3>1. publisher'[p].holds = {} /\ (q # p => publisher'[q] = publisher[q])
        BY <2>5, PushFacts
      <3>2. QED
        BY <1>1, <3>1
    <2>6. CASE End(p)
      <3>1. publisher'[p].holds = {} /\ (q # p => publisher'[q] = publisher[q])
        BY <2>6, EndFacts DEF NotPublishing, Publishing
      <3>2. QED
        BY <1>1, <3>1
    <2>7. QED
      BY <1>4, <2>2, <2>3, <2>4, <2>5, <2>6 DEF Publish
  <1>5. ASSUME UNCHANGED vars PROVE UNCHANGED <<client, publisher>>
    BY <1>5 DEF vars, hubVars, clientVars
  <1>6. QED
    BY <1>1, <1>2, <1>3, <1>4, <1>5 DEF Next, Expired

LEMMA StepBehind == Typed /\ Behind /\ [Next]_vars => Behind'
  <1> SUFFICES ASSUME Typed, Behind, [Next]_vars PROVE Behind'
    OBVIOUS
  <1>1. \A c \in Clients : Expired(c) => Expired(c)'
    BY ExpiredForGood
  <1>2. ASSUME NEW q \in Publishers, Busy(q), publisher'[q].dead = publisher[q].dead,
               \A i \in 1 .. publisher'[q].at - 1 : subscriptions'[i] \notin publisher[q].dead
        PROVE  /\ \A c \in publisher'[q].dead : c \in Clients /\ Expired(c)'
               /\ \A i \in 1 .. publisher'[q].at - 1 : subscriptions'[i] \notin publisher'[q].dead
    BY <1>1, <1>2 DEF Behind
  <1>3. ASSUME UNCHANGED <<publisher, subscriptions>> PROVE Behind'
    BY <1>1, <1>3 DEF Behind, Busy
  <1>4. ASSUME NEW p \in Publishers, Begin(p) PROVE Behind'
    <2> DEFINE dead == {c \in Range(subscriptions) : Expired(c)}
    <2>1. /\ \A q \in Publishers : ~Busy(q)
          /\ publisher' = [publisher EXCEPT ![p] = Publishing(published', dead)]
      BY <1>4 DEF Begin, HubIsFree, HubFree, Busy
    <2>2. \A c \in dead : c \in Clients /\ Expired(c)
      BY Facts DEF Range
    <2> HIDE DEF dead
    <2>3. /\ publisher'[p] = Publishing(published', dead)
          /\ \A q \in Publishers : q # p => publisher'[q] = publisher[q]
      BY <2>1, Facts
    <2>4. publisher'[p].dead = dead /\ publisher'[p].at = 1
      BY <2>3 DEF Publishing
    <2>5. \A c \in publisher'[p].dead : c \in Clients /\ Expired(c)'
      BY <1>1, <2>2, <2>4
    <2>6. \A i \in 1 .. publisher'[p].at - 1 : subscriptions'[i] \notin publisher'[p].dead
      BY <2>4
    <2>7. \A q \in Publishers : Busy(q)' => q = p
      BY <2>1, <2>3 DEF Busy
    <2>8. QED
      BY <2>5, <2>6, <2>7 DEF Behind
  <1>5. ASSUME NEW p \in Publishers, Lock(p) PROVE Behind'
    <2>1. /\ publisher[p].step = "visit" /\ UNCHANGED subscriptions
          /\ publisher' = [publisher EXCEPT ![p].step = "push", ![p].holds = {Current(p)}]
      BY <1>5 DEF Lock, Visiting
    <2>2. publisher \in [Publishers -> PublisherType] /\ publisher[p] \in PublisherType
      BY Facts
    <2>3. publisher'[p].at = publisher[p].at /\ publisher'[p].dead = publisher[p].dead
      BY <2>1, <2>2 DEF PublisherType
    <2>4. \A q \in Publishers : q # p => publisher'[q] = publisher[q]
      BY <2>1, <2>2
    <2>5. \A q \in Publishers : Busy(q)' => Busy(q) /\ publisher'[q].at = publisher[q].at
                                           /\ publisher'[q].dead = publisher[q].dead
      BY <2>1, <2>3, <2>4 DEF Busy
    <2>6. QED
      BY <1>1, <2>1, <2>5 DEF Behind
  <1>6. ASSUME NEW p \in Publishers, Erase(p) PROVE Behind'
    <2>1. /\ publisher[p].step = "visit" /\ UNCHANGED publisher
          /\ \A i \in 1 .. publisher[p].at - 1 : subscriptions'[i] = subscriptions[i]
      BY <1>6, ErasedFacts
    <2>2. \A q \in Publishers : Busy(q) => q = p
      BY <2>1 DEF Typed, Mutex, Busy
    <2>3. Busy(p) /\ \A q \in Publishers : Busy(q)' => q = p
      BY <2>1, <2>2 DEF Busy
    <2>4. \A i \in 1 .. publisher'[p].at - 1 : subscriptions'[i] \notin publisher[p].dead
      BY <2>1, <2>3 DEF Behind
    <2>5. QED
      BY <1>2, <2>1, <2>3, <2>4 DEF Behind
  <1>7. ASSUME NEW p \in Publishers, Push(p) PROVE Behind'
    <2>1. /\ publisher[p].step = "push" /\ UNCHANGED subscriptions
          /\ publisher'[p].at = publisher[p].at + 1 /\ publisher'[p].dead = publisher[p].dead
          /\ \A q \in Publishers : q # p => publisher'[q] = publisher[q] /\ ~Busy(q)
      BY <1>7, PushFacts
    <2>2. Busy(p) /\ \A q \in Publishers : Busy(q)' => q = p
      BY <2>1 DEF Busy
    <2>3. subscriptions[publisher[p].at] \notin publisher[p].dead
      <3>1. publisher[p].holds = {Current(p)}
        BY <2>1 DEF Typed, Publishes
      <3>2. ~Expired(Current(p))
        BY <3>1 DEF Expired
      <3>3. QED
        BY <2>2, <3>2 DEF Behind, Current
    <2>4. \A i \in 1 .. publisher[p].at - 1 : subscriptions[i] \notin publisher[p].dead
      BY <2>2 DEF Behind
    <2>5. \A i \in 1 .. publisher'[p].at - 1 :
              i \in 1 .. publisher[p].at - 1 \/ i = publisher[p].at
      <3>1. publisher[p].at \in Nat
        BY Facts
      <3>2. QED
        BY <2>1, <3>1
    <2>6. \A i \in 1 .. publisher'[p].at - 1 : subscriptions'[i] \notin publisher[p].dead
      BY <2>1, <2>3, <2>4, <2>5
    <2>7. QED
      BY <1>2, <2>1, <2>2, <2>6 DEF Behind
  <1>8. ASSUME NEW p \in Publishers, End(p) PROVE Behind'
    <2>1. \A q \in Publishers : ~Busy(q)'
      BY <1>8, EndFacts DEF Busy, NotPublishing, Publishing
    <2>2. QED
      BY <2>1 DEF Behind
  <1>9. ASSUME NEW c \in Clients, Serve(c) PROVE Behind'
    <2>1. CASE Subscribe(c)
      <3>1. \A q \in Publishers : ~Busy(q)'
        BY <2>1 DEF Subscribe, HubFree, Busy
      <3>2. QED
        BY <3>1 DEF Behind
    <2>2. CASE ~Subscribe(c)
      <3>1. UNCHANGED <<publisher, subscriptions>>
        BY <1>9, <2>2 DEF Serve, Pop, Heartbeat, Write, Leave, Close, Release, hubVars
      <3>2. QED
        BY <1>3, <3>1
    <2>3. QED
      BY <2>1, <2>2
  <1>10. ASSUME UNCHANGED vars PROVE Behind'
    <2>1. UNCHANGED <<publisher, subscriptions>>
      BY <1>10 DEF vars, hubVars
    <2>2. QED
      BY <1>3, <2>1
  <1>11. QED
    BY <1>4, <1>5, <1>6, <1>7, <1>8, <1>9, <1>10 DEF Next, Publish

LEMMA ErasedAtTheEnd ==
    ASSUME Typed, Behind, Next, NEW p \in Publishers,
           publisher[p].step # "idle", publisher'[p].step = "idle"
    PROVE  publisher[p].dead \cap Range(subscriptions') = {}
  <1>1. UNCHANGED publisher => FALSE
    OBVIOUS
  <1>2. ASSUME NEW c \in Clients, Serve(c) PROVE FALSE
    BY <1>1, <1>2 DEF Serve, Subscribe, Pop, Heartbeat, Write, Leave, Close, Release, hubVars
  <1>3. ASSUME NEW q \in Publishers, Begin(q) PROVE FALSE
    BY <1>3 DEF Begin, HubIsFree, HubFree
  <1>4. ASSUME NEW q \in Publishers, Lock(q) PROVE FALSE
    <2>1. publisher' = [publisher EXCEPT ![q].step = "push", ![q].holds = {Current(q)}]
      BY <1>4 DEF Lock
    <2>2. publisher \in [Publishers -> PublisherType] /\ publisher[q] \in PublisherType
      BY Facts
    <2>3. publisher'[q].step = "push" /\ (q # p => publisher'[p] = publisher[p])
      BY <2>1, <2>2 DEF PublisherType
    <2>4. QED
      BY <2>3
  <1>5. ASSUME NEW q \in Publishers, Erase(q) PROVE FALSE
    BY <1>1, <1>5 DEF Erase
  <1>6. ASSUME NEW q \in Publishers, Push(q) PROVE FALSE
    <2>1. publisher'[q].step = "visit" /\ (q # p => publisher'[p] = publisher[p])
      BY <1>6, PushFacts
    <2>2. QED
      BY <2>1
  <1>7. PICK q \in Publishers : End(q)
    BY <1>2, <1>3, <1>4, <1>5, <1>6 DEF Next, Publish
  <1>8. /\ publisher[q].at = Len(subscriptions) + 1 /\ UNCHANGED subscriptions
        /\ (q # p => publisher'[p] = publisher[p])
    BY <1>7, EndFacts
  <1>9. q = p /\ Busy(p)
    BY <1>8 DEF Busy
  <1>10. \A i \in 1 .. publisher[p].at - 1 : subscriptions[i] \notin publisher[p].dead
    BY <1>9 DEF Behind
  <1>11. Len(subscriptions) \in Nat /\ DOMAIN subscriptions = 1 .. Len(subscriptions)
    BY Facts
  <1>12. publisher[p].at - 1 = Len(subscriptions)
    BY <1>8, <1>9, <1>11
  <1>13. \A i \in DOMAIN subscriptions' : subscriptions'[i] \notin publisher[p].dead
    BY <1>8, <1>10, <1>11, <1>12
  <1>14. QED
    BY <1>13 DEF Range

\* Every publish erases what had expired when it began, whatever expires,
\* subscribes or is erased while it runs; so the entries of clients that
\* left do not pile up in the hub.
THEOREM ExpiredGo == SafeSpec => ExpiredAreErased
  <1> DEFINE Erases ==
        \A p \in Publishers :
            publisher[p].step # "idle" /\ publisher'[p].step = "idle"
                => publisher[p].dead \cap Range(subscriptions') = {}
  <1>1. Init => Typed /\ Behind
    BY InitTyped, BehindBegins
  <1>2. Typed /\ Behind /\ [Next]_vars => (Typed /\ Behind)'
    BY StepTyped, StepBehind
  <1>3. Typed /\ Behind /\ [Next]_vars => [Erases]_vars
    BY ErasedAtTheEnd DEF Erases
  <1>4. QED
    BY <1>1, <1>2, <1>3, PTL DEF SafeSpec, ExpiredAreErased, Erases

=============================================================================
