--------------------------- MODULE AtomicsProofs ---------------------------
(***************************************************************************)
(* Proofs about the parts of the code whose callers share atomics and no   *)
(* lock: the bound on what RateLimiter admits in a second, for any         *)
(* threads, limit and bound of the clock; the counter of drops of          *)
(* SinkMetrics, for any workers, sinks and number of batches; and the      *)
(* buckets and snapshots of Histogram, for any observers, values and       *)
(* boundaries.                                                             *)
(*                                                                         *)
(* The first argument counts how often token_count may still be cleared    *)
(* before a second s is over: twice for each thread that is late and has   *)
(* still to try its exchange (it clears the count, and as it sets          *)
(* token_second back so does the next thread of s), once for each that has *)
(* done its exchange and once more as long as token_second is not s.       *)
(* Every clearing makes room for Limit calls.                              *)
(*                                                                         *)
(* The second follows the worker that submitted when a drop happened: its  *)
(* loads come after it, and no exchange claims less than its sum is above  *)
(* the sum before.                                                         *)
(*                                                                         *)
(* The third adds up the values below each boundary, and follows a         *)
(* snapshot from bucket to bucket.                                         *)
(***************************************************************************)
EXTENDS RateLimiter, SinkMetrics, Histogram, FiniteSetTheorems, TLAPS

N == Cardinality(Threads)

\* Threads of an earlier second that may still set token_second back.
Late(s) == {t \in Threads : at[t] \in {"load", "exchange"} /\ second[t] < s}

Resetting == {t \in Threads : at[t] = "reset"}

\* How often the count may still be cleared while the clock shows s.
Resets(s) ==
    2 * Cardinality(Late(s)) + Cardinality(Resetting) + (IF token_second = s THEN 0 ELSE 1)

\* Calls that the count leaves room for.
Room == IF token_count < Limit THEN Limit - token_count ELSE 0

\* Room for Limit calls as often as this, all in all.
Most == 2 * (N - 1) + 1

\* No thread has got to the count in second s.  One that is about to has not
\* been alone: another one is not late any more.
Fresh(s) ==
    /\ admitted[s] = 0
    /\ \A t \in Threads : second[t] = s => at[t] # "add"
    /\ token_second = s => \E t \in Resetting : second[t] = s
    /\ \A t \in Threads :
           second[t] = s /\ (\/ at[t] = "exchange" /\ observed[t] # token_second
                             \/ at[t] = "reset" /\ token_second # s)
           => \E v \in Threads \ {t} : v \notin Late(s)

Bounded(s) == admitted[s] + Room <= (Most - Resets(s)) * Limit

\* Calls of second s that are not over.
Pending(s) == {t \in Threads : at[t] # "idle" /\ second[t] = s}

Over(s) == admitted[s] + Cardinality(Pending(s)) <= Most * Limit + N - 1

\* All threads came in second s and there is no room: one of them has to be
\* refused before any other can clear the count.
Stuck(s) ==
    /\ Pending(s) = Threads /\ Resetting = {}
    /\ token_second = s /\ token_count >= Limit
    /\ admitted[s] <= Most * Limit

Surge(s) ==
    /\ clock < s => admitted[s] = 0
    /\ clock = s => Fresh(s) \/ Bounded(s)
    /\ clock > s => Over(s) \/ Stuck(s)

Typed ==
    /\ TypeOK
    /\ token_second <= clock
    /\ \A t \in Threads : second[t] <= clock /\ (at[t] = "exchange" => observed[t] # second[t])

Surges == \A s \in Seconds : Surge(s)
Inv == Typed /\ Surges

-----------------------------------------------------------------------------
(* Numbers.                                                                *)

LEMMA Sizes ==
    /\ N \in Nat /\ N >= 1 /\ Most \in Nat /\ Limit \in Nat /\ Limit >= 1
    /\ \A S \in SUBSET Threads : IsFiniteSet(S) /\ Cardinality(S) \in Nat /\ Cardinality(S) <= N
<1>1. N \in Nat /\ N # 0
  BY RateAssumption, FS_CardinalityType, FS_EmptySet DEF RateAssumption, N
<1>2. \A S \in SUBSET Threads : IsFiniteSet(S) /\ Cardinality(S) \in Nat /\ Cardinality(S) <= N
  BY RateAssumption, FS_Subset, FS_CardinalityType DEF RateAssumption, N
<1>3. Most \in Nat
  BY <1>1 DEF Most
<1> QED
  BY <1>1, <1>2, <1>3, RateAssumption DEF RateAssumption

LEMMA OneOutside ==
    ASSUME NEW S \in SUBSET Threads, NEW t \in Threads, t \notin S
    PROVE  Cardinality(S) <= N - 1
<1>1. IsFiniteSet(Threads \ {t}) /\ Cardinality(Threads \ {t}) = N - 1
  BY RateAssumption, FS_RemoveElement DEF RateAssumption, N
<1>2. S \subseteq Threads \ {t}
  OBVIOUS
<1> QED
  BY <1>1, <1>2, FS_Subset

LEMMA TwoOutside ==
    ASSUME NEW S \in SUBSET Threads, NEW t \in Threads, NEW v \in Threads \ {t},
           t \notin S, v \notin S
    PROVE  Cardinality(S) <= N - 2
<1>1. S \cup {v} \in SUBSET Threads /\ t \notin S \cup {v}
  OBVIOUS
<1>2. Cardinality(S \cup {v}) <= N - 1
  BY <1>1, OneOutside
<1>3. Cardinality(S \cup {v}) = Cardinality(S) + 1
  BY Sizes, FS_AddElement
<1>4. N \in Nat /\ Cardinality(S) \in Nat
  BY Sizes
<1> QED
  BY <1>2, <1>3, <1>4

LEMMA OneMoreOrLess ==
    ASSUME NEW S \in SUBSET Threads
    PROVE  /\ \A t \in Threads \ S : Cardinality(S \cup {t}) = Cardinality(S) + 1
           /\ \A t \in S : Cardinality(S \ {t}) = Cardinality(S) - 1
           /\ \A T \in SUBSET S : Cardinality(T) <= Cardinality(S)
<1>1. IsFiniteSet(S)
  BY Sizes
<1> QED
  BY <1>1, FS_AddElement, FS_RemoveElement, FS_Subset

\* What is left when one thread can clear the count no more, and when another
\* one is not late.
LEMMA FewLeft ==
    ASSUME NEW A \in SUBSET Threads, NEW B \in SUBSET Threads, A \cap B = {},
           NEW t \in Threads, t \notin A, t \notin B
    PROVE  /\ 2 * Cardinality(A) + Cardinality(B) <= Most - 1
           /\ \A v \in Threads \ {t} :
                  v \notin A => 2 * Cardinality(A) + Cardinality(B) <= Most - 2
<1>1. /\ Cardinality(A) \in Nat /\ Cardinality(B) \in Nat /\ N \in Nat
      /\ IsFiniteSet(A) /\ IsFiniteSet(B)
  BY Sizes
<1>2. Cardinality(A) <= N - 1
  BY OneOutside
<1>3. Cardinality(A) + Cardinality(B) <= N - 1
  <2>1. Cardinality(A \cup B) = Cardinality(A) + Cardinality(B) - Cardinality(A \cap B)
    BY <1>1, FS_Union
  <2>2. Cardinality(A \cap B) = 0
    BY FS_EmptySet
  <2>3. Cardinality(A \cup B) <= N - 1
    BY OneOutside
  <2> QED
    BY <1>1, <2>1, <2>2, <2>3
<1>4. ASSUME NEW v \in Threads \ {t}, v \notin A
      PROVE  2 * Cardinality(A) + Cardinality(B) <= Most - 2
  <2>1. Cardinality(A) <= N - 2
    BY <1>4, TwoOutside
  <2> QED
    BY <1>1, <1>3, <2>1 DEF Most
<1>5. 2 * Cardinality(A) + Cardinality(B) <= Most - 1
  BY <1>1, <1>2, <1>3 DEF Most
<1> QED
  BY <1>4, <1>5

LEMMA Products ==
    ASSUME NEW x \in Int, NEW y \in Int
    PROVE  /\ x * Limit \in Int
           /\ x <= y => x * Limit <= y * Limit
           /\ x + 1 <= y => x * Limit + Limit <= y * Limit
<1>1. Limit \in Nat
  BY Sizes
<1>2. ASSUME x <= y PROVE x * Limit <= y * Limit
  BY <1>1, <1>2
<1>3. ASSUME x + 1 <= y PROVE x * Limit + Limit <= y * Limit
  <2>1. (x + 1) * Limit <= y * Limit
    BY <1>1, <1>3
  <2>2. (x + 1) * Limit = x * Limit + Limit
    BY <1>1
  <2> QED
    BY <2>1, <2>2
<1>4. x * Limit \in Int
  BY <1>1
<1> QED
  BY <1>2, <1>3, <1>4

Counted ==
    \A s \in Seconds :
        /\ Late(s) \in SUBSET Threads /\ Resetting \in SUBSET Threads
        /\ Pending(s) \in SUBSET Threads
        /\ Late(s) \cap Resetting = {}
        /\ Cardinality(Late(s)) \in Nat /\ Cardinality(Resetting) \in Nat
        /\ Cardinality(Pending(s)) \in Nat
        /\ Resets(s) \in Nat /\ Room \in Nat /\ Room <= Limit /\ admitted[s] \in Nat

LEMMA TypedCounted == Typed => Counted
<1> SUFFICES ASSUME Typed, NEW s \in Seconds
             PROVE  /\ Late(s) \in SUBSET Threads /\ Resetting \in SUBSET Threads
                    /\ Pending(s) \in SUBSET Threads
                    /\ Late(s) \cap Resetting = {}
                    /\ Cardinality(Late(s)) \in Nat /\ Cardinality(Resetting) \in Nat
                    /\ Cardinality(Pending(s)) \in Nat
                    /\ Resets(s) \in Nat /\ Room \in Nat /\ Room <= Limit /\ admitted[s] \in Nat
  BY DEF Counted
<1>1. /\ Late(s) \in SUBSET Threads /\ Resetting \in SUBSET Threads
      /\ Pending(s) \in SUBSET Threads
      /\ Late(s) \cap Resetting = {}
  BY DEF Late, Resetting, Pending
<1>2. /\ Cardinality(Late(s)) \in Nat /\ Cardinality(Resetting) \in Nat
      /\ Cardinality(Pending(s)) \in Nat
  BY <1>1, Sizes
<1>3. Resets(s) \in Nat
  BY <1>2 DEF Resets
<1>4. Room \in Nat /\ Room <= Limit /\ admitted[s] \in Nat
  BY Sizes DEF Typed, TypeOK, Room
<1> QED
  BY <1>1, <1>2, <1>3, <1>4

-----------------------------------------------------------------------------
(* The steps of a thread, by what they do to it.                           *)

\* t goes on to a step, and nothing is done to the other threads.
Moves(t, from, to) ==
    /\ at[t] = from /\ at'[t] = to
    /\ \A u \in Threads \ {t} :
           at'[u] = at[u] /\ second'[u] = second[u] /\ observed'[u] = observed[u]

LEMMA GotoMoves ==
    ASSUME Typed, NEW t \in Threads, NEW from, NEW to, Goto(t, from, to)
    PROVE  at[t] = from /\ at'[t] = to /\ \A u \in Threads \ {t} : at'[u] = at[u]
BY DEF Goto, Typed, TypeOK

LEMMA ReadClockMoves ==
    ASSUME Typed, NEW t \in Threads, ReadClock(t)
    PROVE  /\ Moves(t, "idle", "load") /\ second'[t] = clock
           /\ UNCHANGED <<clock, token_second, token_count, admitted>>
<1>1. at[t] = "idle" /\ at'[t] = "load" /\ \A u \in Threads \ {t} : at'[u] = at[u]
  BY GotoMoves DEF ReadClock
<1>2. second'[t] = clock /\ \A u \in Threads \ {t} : second'[u] = second[u]
  BY DEF ReadClock, Typed, TypeOK
<1> QED
  BY <1>1, <1>2 DEF ReadClock, Moves

LEMMA LoadMoves ==
    ASSUME Typed, NEW t \in Threads, Load(t)
    PROVE  /\ Moves(t, "load", IF token_second = second[t] THEN "add" ELSE "exchange")
           /\ observed'[t] = token_second
           /\ UNCHANGED <<clock, token_second, token_count, second, admitted>>
<1>1. /\ at[t] = "load" /\ \A u \in Threads \ {t} : at'[u] = at[u]
      /\ at'[t] = IF token_second = second[t] THEN "add" ELSE "exchange"
  BY GotoMoves DEF Load
<1>2. observed'[t] = token_second /\ \A u \in Threads \ {t} : observed'[u] = observed[u]
  BY DEF Load, Typed, TypeOK
<1> QED
  BY <1>1, <1>2 DEF Load, Moves

LEMMA ExchangeMoves ==
    ASSUME Typed, NEW t \in Threads, Exchange(t)
    PROVE  /\ \/ /\ token_second = observed[t] /\ token_second' = second[t]
                 /\ Moves(t, "exchange", "reset")
              \/ /\ token_second # observed[t] /\ token_second' = token_second
                 /\ Moves(t, "exchange", "add")
           /\ UNCHANGED <<clock, token_count, second, admitted>>
<1>1. observed'[t] = token_second /\ \A u \in Threads \ {t} : observed'[u] = observed[u]
  BY DEF Exchange, Typed, TypeOK
<1>2. /\ at[t] = "exchange" /\ \A u \in Threads \ {t} : at'[u] = at[u]
      /\ at'[t] = IF token_second = observed[t] THEN "reset" ELSE "add"
  BY GotoMoves DEF Exchange
<1>3. UNCHANGED <<clock, token_count, second, admitted>>
  BY DEF Exchange
<1> QED
  BY <1>1, <1>2, <1>3 DEF Exchange, Moves

LEMMA ResetMoves ==
    ASSUME Typed, NEW t \in Threads, Reset(t)
    PROVE  /\ Moves(t, "reset", "add") /\ token_count' = 0
           /\ UNCHANGED <<clock, token_second, second, observed, admitted>>
<1>1. at[t] = "reset" /\ at'[t] = "add" /\ \A u \in Threads \ {t} : at'[u] = at[u]
  BY GotoMoves DEF Reset
<1> QED
  BY <1>1 DEF Reset, locals, Moves

LEMMA AddMoves ==
    ASSUME Typed, NEW t \in Threads, Add(t)
    PROVE  /\ Moves(t, "add", "idle")
           /\ token_count' = IF token_count <= Limit THEN token_count + 1 ELSE token_count
           /\ \A s \in Seconds \ {second[t]} : admitted'[s] = admitted[s]
           /\ admitted'[second[t]] = IF token_count < Limit THEN admitted[second[t]] + 1
                                                            ELSE admitted[second[t]]
           /\ UNCHANGED <<clock, token_second, second, observed>>
<1>1. at[t] = "add" /\ at'[t] = "idle" /\ \A u \in Threads \ {t} : at'[u] = at[u]
  BY GotoMoves DEF Add
<1>2. second[t] \in Seconds /\ admitted \in [Seconds -> Nat]
  BY DEF Typed, TypeOK
<1>3. /\ \A s \in Seconds \ {second[t]} : admitted'[s] = admitted[s]
      /\ admitted'[second[t]] = IF token_count < Limit THEN admitted[second[t]] + 1
                                                       ELSE admitted[second[t]]
  BY <1>2 DEF Add, Admits
<1> QED
  BY <1>1, <1>3 DEF Add, locals, Moves

LEMMA TypedNext ==
    ASSUME Typed, [Next]_vars
    PROVE  Typed'
<1> USE RateAssumption DEF RateAssumption
<1>1. ASSUME NEW t \in Threads, ReadClock(t) PROVE Typed'
  <2>1. TypeOK'
    <3>1. TypeOK
      BY DEF Typed
    <3>2. at' \in [Threads -> Steps]
      BY <1>1, <3>1 DEF ReadClock, Goto, TypeOK, Steps
    <3>3. second' \in [Threads -> Seconds]
      BY <1>1, <3>1 DEF ReadClock, TypeOK
    <3> QED
      BY <1>1, <3>1, <3>2, <3>3 DEF ReadClock, TypeOK
  <2>2. second'[t] <= clock' /\ at'[t] # "exchange" /\ token_second' <= clock'
    <3>1. at'[t] = "load" /\ second'[t] = clock /\ UNCHANGED <<clock, token_second>>
      BY <1>1, ReadClockMoves DEF Moves
    <3>2. clock \in Nat /\ token_second <= clock
      BY DEF Typed, TypeOK, Seconds
    <3> QED
      BY <3>1, <3>2
  <2>3. ASSUME NEW u \in Threads \ {t}
        PROVE  second'[u] <= clock' /\ (at'[u] = "exchange" => observed'[u] # second'[u])
    BY <1>1, ReadClockMoves DEF Typed, Moves
  <2> QED
    BY <2>1, <2>2, <2>3 DEF Typed
<1>2. ASSUME NEW t \in Threads, Load(t) PROVE Typed'
  <2>1. TypeOK'
    BY <1>2 DEF Load, Goto, Typed, TypeOK, Steps
  <2> QED
    BY <1>2, <2>1, LoadMoves DEF Typed, Moves
<1>3. ASSUME NEW t \in Threads, Exchange(t) PROVE Typed'
  <2>1. TypeOK'
    BY <1>3 DEF Exchange, Goto, Typed, TypeOK, Steps
  <2> QED
    BY <1>3, <2>1, ExchangeMoves DEF Typed, Moves
<1>4. ASSUME NEW t \in Threads, Reset(t) PROVE Typed'
  <2>1. TypeOK'
    BY <1>4 DEF Reset, Goto, locals, Typed, TypeOK, Steps
  <2> QED
    BY <1>4, <2>1, ResetMoves DEF Typed, Moves
<1>5. ASSUME NEW t \in Threads, Add(t) PROVE Typed'
  <2>1. TypeOK'
    BY <1>5 DEF Add, Goto, locals, Typed, TypeOK, Steps
  <2> QED
    BY <1>5, <2>1, AddMoves DEF Typed, Moves
<1>6. CASE Tick
  BY <1>6 DEF Tick, locals, Typed, TypeOK, Seconds
<1>7. CASE UNCHANGED vars
  BY <1>7 DEF vars, locals, Typed, TypeOK
<1> QED
  BY <1>1, <1>2, <1>3, <1>4, <1>5, <1>6, <1>7 DEF Next

-----------------------------------------------------------------------------
(* Second s, while the clock shows it.                                     *)

\* The first thread of s gets to the count.
LEMMA FreshEnds ==
    ASSUME Counted', NEW s \in Seconds, NEW t \in Threads,
           at'[t] = "add", second'[t] = s, admitted'[s] = 0,
           token_second' = s \/ \E v \in Threads \ {t} : v \notin Late(s)'
    PROVE  Bounded(s)'
<1>1. /\ Late(s)' \in SUBSET Threads /\ Resetting' \in SUBSET Threads
      /\ Late(s)' \cap Resetting' = {}
      /\ Cardinality(Late(s)') \in Nat /\ Cardinality(Resetting') \in Nat
      /\ Resets(s)' \in Nat /\ Room' \in Nat /\ Room' <= Limit
  BY DEF Counted
<1>2. t \notin Late(s)' /\ t \notin Resetting'
  BY DEF Late, Resetting
<1>3. Resets(s)' <= Most - 1
  <2>1. Most \in Nat
    BY Sizes
  <2>2. CASE token_second' = s
    <3>1. 2 * Cardinality(Late(s)') + Cardinality(Resetting') <= Most - 1
      BY <1>1, <1>2, FewLeft
    <3> QED
      BY <1>1, <2>1, <2>2, <3>1 DEF Resets
  <2>3. CASE \E v \in Threads \ {t} : v \notin Late(s)'
    <3>1. 2 * Cardinality(Late(s)') + Cardinality(Resetting') <= Most - 2
      BY <1>1, <1>2, <2>3, FewLeft
    <3> QED
      BY <1>1, <2>1, <3>1 DEF Resets
  <2> QED
    BY <2>2, <2>3
<1>4. Limit <= (Most - Resets(s)') * Limit
  <2>1. ASSUME NEW x \in Int, x >= 1 PROVE Limit <= x * Limit
    BY <2>1, Sizes
  <2> QED
    BY <1>1, <1>3, <2>1, Sizes
<1>5. (Most - Resets(s)') * Limit \in Int
  BY <1>1, Sizes
<1> QED
  BY <1>1, <1>4, <1>5, Sizes DEF Bounded

\* A step that leaves room for no more calls and may clear the count as often,
\* and one that clears it once.
LEMMA BoundedStays ==
    ASSUME Counted, Counted', NEW s \in Seconds, Bounded(s),
           \/ Resets(s)' <= Resets(s) /\ admitted'[s] + Room' <= admitted[s] + Room
           \/ Resets(s)' + 1 <= Resets(s) /\ admitted'[s] <= admitted[s]
    PROVE  Bounded(s)'
<1>1. /\ Resets(s) \in Nat /\ Room \in Nat /\ admitted[s] \in Nat
      /\ Resets(s)' \in Nat /\ Room' \in Nat /\ admitted'[s] \in Nat /\ Room' <= Limit
  BY DEF Counted
<1>2. admitted[s] + Room <= (Most - Resets(s)) * Limit
  BY DEF Bounded
<1>3. PICK a \in Nat, room \in Nat, r \in Nat : a = admitted[s] /\ room = Room /\ r = Resets(s)
  BY <1>1
<1>4. PICK b \in Nat, space \in Nat, q \in Nat :
          b = admitted'[s] /\ space = Room' /\ q = Resets(s)'
  BY <1>1
<1>5. Most - r \in Int /\ Most - q \in Int
  BY Sizes
<1>6. PICK product \in Int, larger \in Int :
          product = (Most - r) * Limit /\ larger = (Most - q) * Limit
  BY <1>5, Products
<1>7. a + room <= product
  BY <1>2, <1>3, <1>6
<1>8. CASE Resets(s)' <= Resets(s) /\ admitted'[s] + Room' <= admitted[s] + Room
  <2>1. q <= r /\ b + space <= a + room
    BY <1>3, <1>4, <1>8
  <2>2. Most - r <= Most - q
    BY <2>1, Sizes
  <2>3. product <= larger
    BY <1>5, <1>6, <2>2, Products
  <2>4. b + space <= larger
    BY <1>7, <2>1, <2>3
  <2> QED
    BY <1>4, <1>6, <2>4 DEF Bounded
<1>9. CASE Resets(s)' + 1 <= Resets(s) /\ admitted'[s] <= admitted[s]
  <2>1. q + 1 <= r /\ b <= a /\ space <= Limit
    BY <1>1, <1>3, <1>4, <1>9
  <2>2. (Most - r) + 1 <= Most - q
    BY <2>1, Sizes
  <2>3. product + Limit <= larger
    BY <1>5, <1>6, <2>2, Products
  <2>4. b + space <= larger
    BY <1>7, <2>1, <2>3, Sizes
  <2> QED
    BY <1>4, <1>6, <2>4 DEF Bounded
<1> QED
  BY <1>8, <1>9

LEMMA ReadClockInTime ==
    ASSUME Typed, Counted, Counted', NEW s \in Seconds, clock = s, Fresh(s) \/ Bounded(s),
           NEW t \in Threads, ReadClock(t)
    PROVE  Fresh(s)' \/ Bounded(s)'
<1>1. /\ Moves(t, "idle", "load") /\ second'[t] = s
      /\ UNCHANGED <<clock, token_second, token_count, admitted>>
  BY ReadClockMoves
<1>2. Late(s)' = Late(s) /\ Resetting' = Resetting
  <2>1. Resetting' = Resetting
    BY <1>1 DEF Moves, Resetting
  <2>2. \A u \in Threads : u \in Late(s)' <=> u \in Late(s)
    <3>1. t \notin Late(s) /\ t \notin Late(s)'
      BY <1>1 DEF Moves, Late, Seconds
    <3> QED
      BY <1>1, <3>1 DEF Moves, Late
  <2> QED
    BY <2>1, <2>2 DEF Late
<1>3. CASE Fresh(s)
  <2>1. admitted'[s] = 0 /\ \A u \in Threads : second'[u] = s => at'[u] # "add"
    BY <1>1, <1>3 DEF Fresh, Moves
  <2>2. token_second' = s => \E u \in Resetting' : second'[u] = s
    BY <1>1, <1>2, <1>3 DEF Fresh, Moves, Resetting
  <2>3. ASSUME NEW u \in Threads, second'[u] = s,
               \/ at'[u] = "exchange" /\ observed'[u] # token_second'
               \/ at'[u] = "reset" /\ token_second' # s
        PROVE  \E v \in Threads \ {u} : v \notin Late(s)'
    BY <1>1, <1>2, <1>3, <2>3 DEF Fresh, Moves
  <2> QED
    BY <2>1, <2>2, <2>3 DEF Fresh
<1>4. CASE Bounded(s)
  BY <1>1, <1>2, <1>4 DEF Bounded, Resets, Room
<1> QED
  BY <1>3, <1>4

LEMMA LoadInTime ==
    ASSUME Typed, Counted, Counted', NEW s \in Seconds, clock = s, Fresh(s) \/ Bounded(s),
           NEW t \in Threads, Load(t)
    PROVE  Fresh(s)' \/ Bounded(s)'
<1>1. /\ Moves(t, "load", IF token_second = second[t] THEN "add" ELSE "exchange")
      /\ observed'[t] = token_second
      /\ UNCHANGED <<clock, token_second, token_count, second, admitted>>
  BY LoadMoves
<1>2. Late(s)' \subseteq Late(s) /\ Resetting' = Resetting
  BY <1>1 DEF Moves, Late, Resetting
<1>3. CASE Fresh(s) /\ ~(second[t] = s /\ token_second = s)
  <2>1. admitted'[s] = 0 /\ \A u \in Threads : second'[u] = s => at'[u] # "add"
    BY <1>1, <1>3 DEF Fresh, Moves
  <2>2. token_second' = s => \E u \in Resetting' : second'[u] = s
    BY <1>1, <1>2, <1>3 DEF Fresh
  <2>3. ASSUME NEW u \in Threads, second'[u] = s,
               \/ at'[u] = "exchange" /\ observed'[u] # token_second'
               \/ at'[u] = "reset" /\ token_second' # s
        PROVE  \E v \in Threads \ {u} : v \notin Late(s)'
    <3>1. u # t
      BY <1>1, <2>3 DEF Moves
    <3>2. \E v \in Threads \ {u} : v \notin Late(s)
      BY <1>1, <1>3, <2>3, <3>1 DEF Fresh, Moves
    <3> QED
      BY <1>2, <3>2
  <2> QED
    BY <2>1, <2>2, <2>3 DEF Fresh
<1>4. CASE Fresh(s) /\ second[t] = s /\ token_second = s
  BY <1>1, <1>4, FreshEnds DEF Fresh, Moves
<1>5. CASE Bounded(s)
  <2>1. Resets(s)' <= Resets(s)
    <3>1. Cardinality(Late(s)') <= Cardinality(Late(s))
      BY <1>2, Sizes, FS_Subset DEF Counted
    <3>2. Cardinality(Late(s)') \in Nat /\ Cardinality(Late(s)) \in Nat /\ Cardinality(Resetting) \in Nat
      BY DEF Counted
    <3> QED
      BY <1>1, <1>2, <3>1, <3>2 DEF Resets
  <2>2. admitted'[s] + Room' = admitted[s] + Room
    BY <1>1 DEF Room
  <2>3. admitted[s] \in Nat /\ Room \in Nat
    BY DEF Counted
  <2> QED
    BY <1>5, <2>1, <2>2, <2>3, BoundedStays
<1> QED
  BY <1>3, <1>4, <1>5

LEMMA ExchangeInTime ==
    ASSUME Typed, Counted, Counted', NEW s \in Seconds, clock = s, Fresh(s) \/ Bounded(s),
           NEW t \in Threads, Exchange(t)
    PROVE  Fresh(s)' \/ Bounded(s)'
<1>1. UNCHANGED <<clock, token_count, second, admitted>>
  BY ExchangeMoves
<1>2. at[t] = "exchange" => observed[t] # second[t]
  BY DEF Typed
<1>3. Room \in Nat /\ admitted[s] \in Nat
  BY DEF Counted
<1>7. /\ Cardinality(Late(s)') \in Nat /\ Cardinality(Late(s)) \in Nat
      /\ Cardinality(Resetting') \in Nat /\ Cardinality(Resetting) \in Nat
  BY DEF Counted
<1>8. Late(s) \in SUBSET Threads /\ Resetting \in SUBSET Threads
  BY DEF Counted
<1>4. admitted'[s] + Room' = admitted[s] + Room
  BY <1>1 DEF Room
<1>5. CASE token_second # observed[t]
  <2>1. token_second' = token_second /\ Moves(t, "exchange", "add")
    BY <1>5, ExchangeMoves
  <2>2. Late(s)' \subseteq Late(s) /\ Resetting' = Resetting
    BY <1>1, <2>1 DEF Moves, Late, Resetting
  <2>3. CASE Fresh(s) /\ second[t] # s
    <3>1. admitted'[s] = 0 /\ \A u \in Threads : second'[u] = s => at'[u] # "add"
      BY <1>1, <2>1, <2>3 DEF Fresh, Moves
    <3>2. token_second' = s => \E u \in Resetting' : second'[u] = s
      BY <1>1, <2>1, <2>2, <2>3 DEF Fresh
    <3>3. ASSUME NEW u \in Threads, second'[u] = s,
                 \/ at'[u] = "exchange" /\ observed'[u] # token_second'
                 \/ at'[u] = "reset" /\ token_second' # s
          PROVE  \E v \in Threads \ {u} : v \notin Late(s)'
      <4>1. \E v \in Threads \ {u} : v \notin Late(s)
        BY <1>1, <2>1, <2>3, <3>3 DEF Fresh, Moves
      <4> QED
        BY <2>2, <4>1
    <3> QED
      BY <3>1, <3>2, <3>3 DEF Fresh
  <2>4. CASE Fresh(s) /\ second[t] = s
    <3>1. \E v \in Threads \ {t} : v \notin Late(s)
      BY <1>5, <2>1, <2>4 DEF Fresh, Moves
    <3>2. \E v \in Threads \ {t} : v \notin Late(s)'
      BY <2>2, <3>1
    <3> QED
      BY <1>1, <2>1, <2>4, <3>2, FreshEnds DEF Fresh, Moves
  <2>5. CASE Bounded(s)
    <3>1. Cardinality(Late(s)') <= Cardinality(Late(s))
      BY <1>8, <2>2, OneMoreOrLess
    <3>2. Resets(s)' <= Resets(s)
      BY <1>7, <2>1, <2>2, <3>1 DEF Resets
    <3> QED
      BY <1>3, <1>4, <2>5, <3>2, BoundedStays
  <2> QED
    BY <2>3, <2>4, <2>5
<1>6. CASE token_second = observed[t]
  <2>1. /\ token_second' = second[t] /\ Moves(t, "exchange", "reset")
        /\ token_second # second[t]
    BY <1>2, <1>6, ExchangeMoves DEF Moves
  <2>2. Resetting' = Resetting \cup {t} /\ t \notin Resetting
    BY <2>1 DEF Moves, Resetting
  <2>3. Late(s)' = Late(s) \ {t}
    BY <1>1, <2>1 DEF Moves, Late
  <2>4. t \in Late(s) \/ second[t] = s
    BY <2>1 DEF Moves, Late, Typed, TypeOK, Seconds
  <2>5. CASE Fresh(s)
    <3>1. admitted'[s] = 0 /\ \A u \in Threads : second'[u] = s => at'[u] # "add"
      BY <1>1, <2>1, <2>5 DEF Fresh, Moves
    <3>2. token_second' = s => \E u \in Resetting' : second'[u] = s
      BY <1>1, <2>1, <2>2
    <3>3. ASSUME NEW u \in Threads, second'[u] = s,
                 \/ at'[u] = "exchange" /\ observed'[u] # token_second'
                 \/ at'[u] = "reset" /\ token_second' # s
          PROVE  \E v \in Threads \ {u} : v \notin Late(s)'
      <4>1. u # t
        BY <1>1, <2>1, <3>3 DEF Moves
      <4> QED
        BY <2>3, <4>1
    <3> QED
      BY <3>1, <3>2, <3>3 DEF Fresh
  <2>6. CASE Bounded(s)
    <3>1. Cardinality(Resetting') = Cardinality(Resetting) + 1
      BY <1>8, <2>2, OneMoreOrLess
    <3>2. ASSUME t \in Late(s) PROVE Resets(s)' <= Resets(s)
      <4>1. Cardinality(Late(s)') = Cardinality(Late(s)) - 1
        BY <1>8, <2>3, <3>2, OneMoreOrLess
      <4> QED
        BY <1>7, <2>1, <3>1, <4>1 DEF Resets
    <3>3. ASSUME second[t] = s PROVE Resets(s)' <= Resets(s)
      <4>1. Late(s)' = Late(s)
        BY <1>1, <2>3, <3>3 DEF Late, Seconds
      <4>2. token_second' = s /\ token_second # s
        BY <2>1, <3>3
      <4> QED
        BY <1>7, <3>1, <4>1, <4>2 DEF Resets
    <3>4. Resets(s)' <= Resets(s)
      BY <2>4, <3>2, <3>3
    <3> QED
      BY <1>3, <1>4, <2>6, <3>4, BoundedStays
  <2> QED
    BY <2>5, <2>6
<1> QED
  BY <1>5, <1>6

LEMMA ResetInTime ==
    ASSUME Typed, Counted, Counted', NEW s \in Seconds, clock = s, Fresh(s) \/ Bounded(s),
           NEW t \in Threads, Reset(t)
    PROVE  Fresh(s)' \/ Bounded(s)'
<1>1. /\ Moves(t, "reset", "add") /\ token_count' = 0
      /\ UNCHANGED <<clock, token_second, second, observed, admitted>>
  BY ResetMoves
<1>2. Late(s)' = Late(s) /\ Resetting' = Resetting \ {t} /\ t \in Resetting
  BY <1>1 DEF Moves, Late, Resetting
<1>3. CASE Fresh(s) /\ second[t] # s
  <2>1. admitted'[s] = 0 /\ \A u \in Threads : second'[u] = s => at'[u] # "add"
    BY <1>1, <1>3 DEF Fresh, Moves
  <2>2. token_second' = s => \E u \in Resetting' : second'[u] = s
    BY <1>1, <1>2, <1>3 DEF Fresh
  <2>3. ASSUME NEW u \in Threads, second'[u] = s,
               \/ at'[u] = "exchange" /\ observed'[u] # token_second'
               \/ at'[u] = "reset" /\ token_second' # s
        PROVE  \E v \in Threads \ {u} : v \notin Late(s)'
    BY <1>1, <1>2, <1>3, <2>3 DEF Fresh, Moves
  <2> QED
    BY <2>1, <2>2, <2>3 DEF Fresh
<1>4. CASE Fresh(s) /\ second[t] = s
  <2>1. token_second' = s \/ \E v \in Threads \ {t} : v \notin Late(s)'
    BY <1>1, <1>2, <1>4 DEF Fresh, Moves
  <2> QED
    BY <1>1, <1>4, <2>1, FreshEnds DEF Fresh, Moves
<1>5. CASE Bounded(s)
  <2>1. /\ Resets(s) \in Nat /\ Room \in Nat /\ admitted[s] \in Nat
        /\ Resets(s)' \in Nat /\ Room' \in Nat /\ admitted'[s] \in Nat /\ Room' <= Limit
    BY DEF Counted
  <2>5. Cardinality(Late(s)) \in Nat /\ Cardinality(Resetting) \in Nat
    BY DEF Counted
  <2>2. Cardinality(Resetting') = Cardinality(Resetting) - 1
    BY <1>2, OneMoreOrLess DEF Counted
  <2>3. Resets(s)' + 1 <= Resets(s)
    BY <1>1, <1>2, <2>2, <2>5 DEF Resets
  <2>4. admitted'[s] <= admitted[s]
    BY <1>1, <2>1
  <2> QED
    BY <1>5, <2>3, <2>4, BoundedStays
<1> QED
  BY <1>3, <1>4, <1>5

LEMMA AddInTime ==
    ASSUME Typed, Counted, Counted', NEW s \in Seconds, clock = s, Fresh(s) \/ Bounded(s),
           NEW t \in Threads, Add(t)
    PROVE  Fresh(s)' \/ Bounded(s)'
<1>1. /\ Moves(t, "add", "idle")
      /\ token_count' = IF token_count <= Limit THEN token_count + 1 ELSE token_count
      /\ \A x \in Seconds \ {second[t]} : admitted'[x] = admitted[x]
      /\ admitted'[second[t]] = IF token_count < Limit THEN admitted[second[t]] + 1
                                                       ELSE admitted[second[t]]
      /\ UNCHANGED <<clock, token_second, second, observed>>
  BY AddMoves
<1>2. Late(s)' = Late(s) /\ Resetting' = Resetting
  BY <1>1 DEF Moves, Late, Resetting
<1>3. CASE Fresh(s)
  <2>1. second[t] # s
    BY <1>1, <1>3 DEF Fresh, Moves
  <2>2. admitted'[s] = 0 /\ \A u \in Threads : second'[u] = s => at'[u] # "add"
    BY <1>1, <1>3, <2>1 DEF Fresh, Moves
  <2>3. token_second' = s => \E u \in Resetting' : second'[u] = s
    BY <1>1, <1>2, <1>3 DEF Fresh
  <2>4. ASSUME NEW u \in Threads, second'[u] = s,
               \/ at'[u] = "exchange" /\ observed'[u] # token_second'
               \/ at'[u] = "reset" /\ token_second' # s
        PROVE  \E v \in Threads \ {u} : v \notin Late(s)'
    BY <1>1, <1>2, <1>3, <2>4 DEF Fresh, Moves
  <2> QED
    BY <2>2, <2>3, <2>4 DEF Fresh
<1>4. CASE Bounded(s)
  <2>1. /\ Resets(s) \in Nat /\ Room \in Nat /\ admitted[s] \in Nat
        /\ Resets(s)' \in Nat /\ Room' \in Nat /\ admitted'[s] \in Nat
        /\ token_count \in Nat /\ Limit \in Nat
    BY Sizes DEF Counted, Typed, TypeOK
  <2>2. Resets(s)' = Resets(s)
    BY <1>1, <1>2 DEF Resets
  <2>3. admitted'[s] + Room' <= admitted[s] + Room
    <3>1. CASE token_count < Limit
      <4>1. Room = Limit - token_count /\ Room' = Room - 1
        BY <1>1, <2>1, <3>1 DEF Room
      <4>2. admitted'[s] <= admitted[s] + 1
        BY <1>1, <2>1, <3>1
      <4> HIDE DEF Room
      <4> QED
        BY <2>1, <4>1, <4>2
    <3>2. CASE ~(token_count < Limit)
      <4>1. Room = 0 /\ Room' = 0
        BY <1>1, <2>1, <3>2 DEF Room
      <4>2. admitted'[s] = admitted[s]
        BY <1>1, <2>1, <3>2
      <4> HIDE DEF Room
      <4> QED
        BY <2>1, <4>1, <4>2
    <3> QED
      BY <3>1, <3>2
  <2> QED
    BY <1>4, <2>1, <2>2, <2>3, BoundedStays
<1> QED
  BY <1>3, <1>4

-----------------------------------------------------------------------------
(* Second s, before and after the clock shows it.                          *)

LEMMA BeforeItsTime ==
    ASSUME Typed, NEW s \in Seconds, clock < s, admitted[s] = 0, [Next]_vars
    PROVE  admitted'[s] = 0
<1>1. ASSUME NEW t \in Threads, ReadClock(t) \/ Load(t) \/ Exchange(t) \/ Reset(t)
      PROVE  admitted'[s] = 0
  BY <1>1 DEF ReadClock, Load, Exchange, Reset
<1>2. ASSUME NEW t \in Threads, Add(t)
      PROVE  admitted'[s] = 0
  <2>1. second[t] # s
    BY DEF Typed, TypeOK, Seconds
  <2> QED
    BY <1>2, <2>1, AddMoves
<1>3. CASE Tick \/ UNCHANGED vars
  BY <1>3 DEF Tick, vars
<1> QED
  BY <1>1, <1>2, <1>3 DEF Next

\* A call of s that ends, or none.
LEMMA OverStays ==
    ASSUME Counted, Counted', NEW s \in Seconds, Over(s),
           \/ Pending(s)' \subseteq Pending(s) /\ admitted'[s] = admitted[s]
           \/ \E t \in Pending(s) :
                  Pending(s)' = Pending(s) \ {t} /\ admitted'[s] <= admitted[s] + 1
    PROVE  Over(s)'
<1>1. /\ Pending(s) \in SUBSET Threads
      /\ Cardinality(Pending(s)) \in Nat /\ Cardinality(Pending(s)') \in Nat
      /\ admitted[s] \in Nat /\ admitted'[s] \in Nat
  BY DEF Counted
<1>2. PICK top \in Int : top = Most * Limit + N - 1
  BY Sizes, Products
<1>3. admitted[s] + Cardinality(Pending(s)) <= top
  BY <1>2 DEF Over
<1>4. admitted'[s] + Cardinality(Pending(s)') <= admitted[s] + Cardinality(Pending(s))
  <2>1. CASE Pending(s)' \subseteq Pending(s) /\ admitted'[s] = admitted[s]
    <3>1. Cardinality(Pending(s)') <= Cardinality(Pending(s))
      BY <1>1, <2>1, OneMoreOrLess
    <3> QED
      BY <1>1, <2>1, <3>1
  <2>2. CASE \E t \in Pending(s) :
                 Pending(s)' = Pending(s) \ {t} /\ admitted'[s] <= admitted[s] + 1
    <3>1. Cardinality(Pending(s)') = Cardinality(Pending(s)) - 1
      BY <1>1, <2>2, OneMoreOrLess
    <3> QED
      BY <1>1, <2>2, <3>1
  <2> QED
    BY <2>1, <2>2
<1>5. admitted'[s] + Cardinality(Pending(s)') <= top
  BY <1>1, <1>3, <1>4
<1> QED
  BY <1>2, <1>5 DEF Over

LEMMA AfterItsTime ==
    ASSUME Typed, Counted, Counted', NEW s \in Seconds, clock > s, Over(s) \/ Stuck(s),
           NEW t \in Threads,
           ReadClock(t) \/ Load(t) \/ Exchange(t) \/ Reset(t) \/ Add(t)
    PROVE  Over(s)' \/ Stuck(s)'
<1>1. CASE ReadClock(t)
  <2>1. /\ Moves(t, "idle", "load") /\ second'[t] = clock /\ clock # s
        /\ UNCHANGED <<clock, token_second, token_count, admitted>>
    BY <1>1, ReadClockMoves DEF Seconds, Typed, TypeOK
  <2>2. t \notin Pending(s)
    BY <2>1 DEF Moves, Pending
  <2>3. Pending(s)' \subseteq Pending(s)
    BY <2>1 DEF Moves, Pending
  <2> QED
    BY <2>1, <2>2, <2>3, OverStays DEF Stuck
<1>2. CASE Load(t)
  <2>1. /\ Moves(t, "load", IF token_second = second[t] THEN "add" ELSE "exchange")
        /\ UNCHANGED <<clock, token_second, token_count, second, admitted>>
    BY <1>2, LoadMoves
  <2>2. Pending(s)' = Pending(s) /\ Resetting' = Resetting
    BY <2>1 DEF Moves, Pending, Resetting
  <2> QED
    BY <2>1, <2>2, OverStays DEF Stuck
<1>3. CASE Exchange(t)
  <2>1. /\ \/ token_second = observed[t] /\ Moves(t, "exchange", "reset")
           \/ token_second' = token_second /\ Moves(t, "exchange", "add")
        /\ UNCHANGED <<clock, token_count, second, admitted>>
    BY <1>3, ExchangeMoves
  <2>2. Pending(s)' = Pending(s)
    BY <2>1 DEF Moves, Pending
  <2>3. CASE Over(s)
    BY <2>1, <2>2, <2>3, OverStays
  <2>4. CASE Stuck(s)
    <3>1. second[t] = s /\ token_second = s
      BY <2>4 DEF Stuck, Pending
    <3>2. token_second # observed[t]
      BY <2>1, <3>1 DEF Typed, Moves
    <3>3. token_second' = token_second /\ Moves(t, "exchange", "add")
      BY <2>1, <3>2
    <3>4. Resetting' = Resetting
      BY <3>3 DEF Moves, Resetting
    <3> QED
      BY <2>1, <2>2, <2>4, <3>3, <3>4 DEF Stuck
  <2> QED
    BY <2>3, <2>4
<1>4. CASE Reset(t)
  <2>1. Moves(t, "reset", "add") /\ UNCHANGED <<second, admitted>>
    BY <1>4, ResetMoves
  <2>2. ~Stuck(s)
    BY <2>1 DEF Stuck, Moves, Resetting
  <2>3. Pending(s)' = Pending(s)
    BY <2>1 DEF Moves, Pending
  <2> QED
    BY <2>1, <2>2, <2>3, OverStays
<1>5. CASE Add(t)
  <2>1. /\ Moves(t, "add", "idle")
        /\ \A x \in Seconds \ {second[t]} : admitted'[x] = admitted[x]
        /\ admitted'[second[t]] = IF token_count < Limit THEN admitted[second[t]] + 1
                                                         ELSE admitted[second[t]]
        /\ UNCHANGED second
    BY <1>5, AddMoves
  <2>2. Pending(s)' = Pending(s) \ {t}
    BY <2>1 DEF Moves, Pending
  <2>3. CASE Over(s)
    <3>1. CASE second[t] = s
      <4>1. t \in Pending(s) /\ admitted'[s] <= admitted[s] + 1
        <5>1. t \in Pending(s) /\ admitted[s] \in Nat
          BY <2>1, <3>1 DEF Moves, Pending, Counted
        <5>2. admitted'[s] = IF token_count < Limit THEN admitted[s] + 1 ELSE admitted[s]
          BY <2>1, <3>1
        <5> QED
          BY <5>1, <5>2
      <4> QED
        BY <2>2, <2>3, <4>1, OverStays
    <3>2. CASE second[t] # s
      BY <2>1, <2>2, <2>3, <3>2, OverStays
    <3> QED
      BY <3>1, <3>2
  <2>4. CASE Stuck(s)
    <3>1. t \in Pending(s) /\ second[t] = s /\ Pending(s) \in SUBSET Threads
      BY <2>4 DEF Stuck, Pending
    <3>2. token_count \in Nat /\ token_count >= Limit /\ Limit \in Nat
      BY <2>4, Sizes DEF Stuck, Typed, TypeOK
    <3>3. admitted'[s] = admitted[s]
      BY <2>1, <3>1, <3>2
    <3>4. Cardinality(Pending(s)') <= N - 1
      BY <2>2, <3>1, OneOutside
    <3>5. admitted[s] <= Most * Limit
      BY <2>4 DEF Stuck
    <3>6. Cardinality(Pending(s)') \in Nat /\ admitted[s] \in Nat
      BY DEF Counted
    <3>7. PICK product \in Int : product = Most * Limit
      BY Sizes, Products
    <3>8. admitted'[s] + Cardinality(Pending(s)') <= product + N - 1
      BY <3>3, <3>4, <3>5, <3>6, <3>7, Sizes
    <3> QED
      BY <3>7, <3>8 DEF Over
  <2> QED
    BY <2>3, <2>4
<1> QED
  BY <1>1, <1>2, <1>3, <1>4, <1>5

\* The clock leaves s.
LEMMA TimeIsUp ==
    ASSUME Typed, Counted, NEW s \in Seconds, Fresh(s) \/ Bounded(s)
    PROVE  Over(s) \/ Stuck(s)
<1>1. /\ Pending(s) \in SUBSET Threads
      /\ Cardinality(Pending(s)) \in Nat /\ Cardinality(Pending(s)) <= N
      /\ admitted[s] \in Nat /\ Room \in Nat /\ Resets(s) \in Nat
      /\ Cardinality(Late(s)) \in Nat /\ Cardinality(Resetting) \in Nat
      /\ Resetting \in SUBSET Threads
  BY Sizes DEF Counted
<1>2. PICK product \in Int : product = Most * Limit
  BY Sizes, Products
<1>3. CASE Fresh(s)
  <2>1. product >= 1
    <3>1. 1 <= Most
      BY Sizes DEF Most
    <3>2. 1 * Limit <= Most * Limit
      BY <3>1, Sizes, Products
    <3>3. 1 * Limit = Limit
      BY Sizes
    <3> QED
      BY <1>2, <3>2, <3>3, Sizes
  <2>2. admitted[s] + Cardinality(Pending(s)) <= product + N - 1
    BY <1>1, <1>3, <2>1, Sizes DEF Fresh
  <2> QED
    BY <1>2, <2>2 DEF Over
<1>4. CASE Bounded(s)
  <2>1. PICK rest \in Int : rest = (Most - Resets(s)) * Limit
    BY <1>1, Sizes, Products
  <2>2. admitted[s] + Room <= rest
    BY <1>4, <2>1 DEF Bounded
  <2>3. rest <= product /\ (Resets(s) >= 1 => rest + Limit <= product)
    <3>1. Most - Resets(s) \in Int /\ Most \in Int
      BY <1>1, Sizes
    <3>2. Most - Resets(s) <= Most /\ (Resets(s) >= 1 => (Most - Resets(s)) + 1 <= Most)
      BY <1>1, Sizes
    <3> QED
      BY <1>2, <2>1, <3>1, <3>2, Products
  <2>4. CASE Cardinality(Pending(s)) <= N - 1 \/ admitted[s] + 1 <= product
    <3>1. admitted[s] <= product
      BY <1>1, <2>2, <2>3
    <3>2. admitted[s] + Cardinality(Pending(s)) <= product + N - 1
      BY <1>1, <2>4, <3>1, Sizes
    <3> QED
      BY <1>2, <3>2 DEF Over
  <2>5. CASE ~(Cardinality(Pending(s)) <= N - 1) /\ ~(admitted[s] + 1 <= product)
    <3>1. Pending(s) = Threads
      <4>1. \A t \in Threads : t \in Pending(s)
        BY <1>1, <2>5, OneOutside
      <4> QED
        BY <1>1, <4>1
    <3>2. admitted[s] <= product /\ Room = 0 /\ Resets(s) = 0
      BY <1>1, <2>2, <2>3, <2>5, Sizes
    <3>3. token_second = s /\ Cardinality(Resetting) = 0
      BY <1>1, <3>2 DEF Resets
    <3>4. Resetting = {}
      BY <1>1, <3>3, Sizes, FS_EmptySet
    <3>5. token_count >= Limit
      BY <3>2, Sizes DEF Room, Typed, TypeOK
    <3> QED
      BY <1>2, <3>1, <3>2, <3>3, <3>4, <3>5 DEF Stuck
  <2> QED
    BY <2>4, <2>5
<1> QED
  BY <1>3, <1>4

-----------------------------------------------------------------------------
LEMMA SurgesNext ==
    ASSUME Typed, Surges, Counted, Counted', [Next]_vars
    PROVE  Surges'
<1> SUFFICES ASSUME NEW s \in Seconds PROVE Surge(s)'
  BY DEF Surges
<1>1. Surge(s) /\ s \in Nat /\ clock \in Nat
  BY DEF Surges, Typed, TypeOK, Seconds
<1>2. CASE UNCHANGED vars
  BY <1>1, <1>2 DEF vars, locals, Surge, Fresh, Bounded, Over, Stuck, Resets, Room, Late,
                    Resetting, Pending
<1>3. CASE Tick
  <2>1. clock' = clock + 1
    BY <1>3 DEF Tick
  <2>2. clock < s => admitted'[s] = 0
    BY <1>1, <1>3, BeforeItsTime DEF Surge, Next
  <2>3. clock = s => Over(s) \/ Stuck(s)
    BY <1>1, TimeIsUp DEF Surge
  <2>4. clock >= s => Over(s)' \/ Stuck(s)'
    <3>1. clock >= s => Over(s) \/ Stuck(s)
      BY <1>1, <2>3 DEF Surge
    <3> QED
      BY <1>3, <3>1 DEF Tick, locals, Over, Stuck, Pending, Resetting
  <2>5. clock' = s => Fresh(s)'
    <3>1. ASSUME clock' = s
          PROVE  token_second # s /\ \A t \in Threads : second[t] # s
      BY <1>1, <2>1, <3>1 DEF Typed, TypeOK, Seconds
    <3> QED
      BY <1>1, <1>3, <2>1, <2>2, <3>1 DEF Tick, locals, Fresh
  <2> QED
    BY <1>1, <2>1, <2>2, <2>4, <2>5 DEF Surge
<1>4. ASSUME NEW t \in Threads, ReadClock(t) \/ Load(t) \/ Exchange(t) \/ Reset(t) \/ Add(t)
      PROVE  Surge(s)'
  <2>1. clock' = clock
    BY <1>4 DEF ReadClock, Load, Exchange, Reset, Add
  <2>2. clock < s => admitted'[s] = 0
    BY <1>1, <1>4, BeforeItsTime DEF Surge, Next
  <2>3. clock = s => Fresh(s)' \/ Bounded(s)'
    BY <1>1, <1>4, ReadClockInTime, LoadInTime, ExchangeInTime, ResetInTime, AddInTime DEF Surge
  <2>4. clock > s => Over(s)' \/ Stuck(s)'
    BY <1>1, <1>4, AfterItsTime DEF Surge
  <2> QED
    BY <2>1, <2>2, <2>3, <2>4 DEF Surge
<1> QED
  BY <1>2, <1>3, <1>4 DEF Next

LEMMA SurgesInit == Init => Typed /\ Surges
<1> SUFFICES ASSUME Init PROVE Typed /\ Surges
  OBVIOUS
<1> USE RateAssumption DEF RateAssumption
<1>1. Typed
  BY DEF Init, Typed, TypeOK, Steps, Seconds
<1>2. ASSUME NEW s \in Seconds PROVE Surge(s)
  <2>1. clock = 1 /\ admitted[s] = 0 /\ token_second = 0 /\ \A t \in Threads : at[t] = "idle"
    BY DEF Init
  <2>2. Fresh(s)
    BY <2>1 DEF Fresh, Seconds
  <2>3. ~(clock > s)
    BY <2>1 DEF Seconds
  <2> QED
    BY <2>1, <2>2, <2>3 DEF Surge
<1> QED
  BY <1>1, <1>2 DEF Surges

LEMMA SurgesAreEnough == Typed /\ Counted /\ Surges => SurgeBound
<1> SUFFICES ASSUME Typed, Counted, Surges, NEW s \in Seconds
             PROVE  admitted[s] <= (2 * (N - 1) + 1) * Limit + (N - 1)
  BY DEF SurgeBound, N
<1>1. PICK product \in Int : product = Most * Limit
  BY Sizes, Products
<1>2. product >= 0
  <2>1. 0 * Limit <= Most * Limit
    BY Sizes, Products
  <2>2. 0 * Limit = 0
    BY Sizes
  <2> QED
    BY <1>1, <2>1, <2>2
<1>3. /\ admitted[s] \in Nat /\ Cardinality(Pending(s)) \in Nat /\ Room \in Nat
      /\ Resets(s) \in Nat
  BY DEF Counted
<1>4. Surge(s) /\ (clock < s \/ clock = s \/ clock > s)
  BY DEF Surges, Typed, TypeOK, Seconds
<1>5. admitted[s] <= product + (N - 1)
  <2>1. CASE admitted[s] = 0
    BY <1>2, <2>1, Sizes
  <2>2. CASE Bounded(s)
    <3>1. PICK rest \in Int : rest = (Most - Resets(s)) * Limit
      BY <1>3, Sizes, Products
    <3>2. Most - Resets(s) <= Most /\ Most - Resets(s) \in Int /\ Most \in Int
      BY <1>3, Sizes
    <3>3. rest <= product
      BY <1>1, <3>1, <3>2, Products
    <3>4. admitted[s] + Room <= rest
      BY <2>2, <3>1 DEF Bounded
    <3> QED
      BY <1>3, <3>3, <3>4, Sizes
  <2>3. CASE Over(s)
    <3>1. admitted[s] + Cardinality(Pending(s)) <= product + N - 1
      BY <1>1, <2>3 DEF Over
    <3> QED
      BY <1>3, <3>1, Sizes
  <2>4. CASE Stuck(s)
    <3>1. admitted[s] <= product
      BY <1>1, <2>4 DEF Stuck
    <3> QED
      BY <1>3, <3>1, Sizes
  <2> QED
    BY <1>4, <2>1, <2>2, <2>3, <2>4 DEF Surge, Fresh
<1> QED
  BY <1>1, <1>5 DEF Most

\* The two atomics are well typed; the count never passes Limit + 1.
THEOREM TypeCorrect == SafeSpec => []TypeOK
<1>1. Typed => TypeOK
  BY DEF Typed
<1>2. Init => Typed
  BY SurgesInit
<1>3. Typed /\ [Next]_vars => Typed'
  BY TypedNext
<1> QED
  BY <1>1, <1>2, <1>3, PTL DEF SafeSpec

\* However many threads call within_rate_limit, and however late any of them is
\* between its steps: what is admitted in a second exceeds Limit by no more than
\* the late ones explain.
THEOREM SurgeIsBounded == SafeSpec => []SurgeBound
<1>1. Init => Typed /\ Surges
  BY SurgesInit
<1>2. Typed /\ [Next]_vars => Typed'
  BY TypedNext
<1>3. Typed /\ Surges /\ Counted /\ Counted' /\ [Next]_vars => Surges'
  BY SurgesNext
<1>4. Typed => Counted
  BY TypedCounted
<1>5. Typed /\ Counted /\ Surges => SurgeBound
  BY SurgesAreEnough
<1> QED
  BY <1>1, <1>2, <1>3, <1>4, <1>5, PTL DEF SafeSpec

-----------------------------------------------------------------------------
(* Sums.                                                                   *)

LEMMA IsUnit ==
    ASSUME NEW f, NEW S, NEW u
    PROVE  u \in Units(f, S) <=> \E x \in S : \E n \in 1 .. f[x] : u = <<x, n>>
BY DEF Units

LEMMA UnitsSame ==
    ASSUME NEW f, NEW g, NEW S, \A x \in S : f[x] = g[x]
    PROVE  Units(f, S) = Units(g, S)
BY DEF Units

LEMMA UnitsUnion ==
    ASSUME NEW f, NEW S, NEW T
    PROVE  /\ Units(f, S \cup T) = Units(f, S) \cup Units(f, T)
           /\ S \cap T = {} => Units(f, S) \cap Units(f, T) = {}
<1>1. ASSUME NEW u
      PROVE  u \in Units(f, S \cup T) <=> u \in Units(f, S) \/ u \in Units(f, T)
  <2>1. u \in Units(f, S \cup T) <=> \E x \in S \cup T : \E n \in 1 .. f[x] : u = <<x, n>>
    BY DEF Units
  <2> QED
    BY <2>1, IsUnit
<1>2. ASSUME S \cap T = {}, NEW u \in Units(f, S), u \in Units(f, T)
      PROVE  FALSE
  <2>1. PICK x \in S : \E n \in 1 .. f[x] : u = <<x, n>>
    BY <1>2, IsUnit
  <2>2. PICK y \in T : \E n \in 1 .. f[y] : u = <<y, n>>
    BY <1>2, IsUnit
  <2> QED
    BY <1>2, <2>1, <2>2
<1> QED
  BY <1>1, <1>2

LEMMA UnitsOne ==
    ASSUME NEW f, NEW x, f[x] \in Int
    PROVE  /\ IsFiniteSet(Units(f, {x}))
           /\ Cardinality(Units(f, {x})) = IF f[x] > 0 THEN f[x] ELSE 0
<1>1. IsFiniteSet({x}) /\ Cardinality({x}) = 1
  BY FS_Singleton
<1>2. IsFiniteSet(1 .. f[x]) /\ Cardinality(1 .. f[x]) = IF 1 > f[x] THEN 0 ELSE f[x] - 1 + 1
  BY FS_Interval
<1>3. PICK c : c = Cardinality(1 .. f[x])
  OBVIOUS
<1>4. c \in Nat /\ c = IF f[x] > 0 THEN f[x] ELSE 0
  BY <1>2, <1>3
<1>5. IsFiniteSet({x} \X (1 .. f[x])) /\ Cardinality({x} \X (1 .. f[x])) = 1 * c
  BY <1>1, <1>2, <1>3, FS_Product
<1>6. 1 * c = c
  BY <1>4
<1>7. Units(f, {x}) = {x} \X (1 .. f[x])
  BY DEF Units
<1> QED
  BY <1>4, <1>5, <1>6, <1>7

\* f has an integer for each member of a finite set.
Summable(f, S) == IsFiniteSet(S) /\ \A x \in S : f[x] \in Int

LEMMA UnitsFinite ==
    ASSUME NEW f, NEW S, Summable(f, S)
    PROVE  IsFiniteSet(Units(f, S)) /\ Cardinality(Units(f, S)) \in Nat
<1> DEFINE T == {Units(f, {x}) : x \in S}
<1>1. [x \in S |-> Units(f, {x})] \in Surjection(S, T)
  BY DEF Surjection
<1>2. IsFiniteSet(T)
  BY <1>1, FS_Surjection DEF Summable
<1>3. \A U \in T : IsFiniteSet(U)
  BY UnitsOne DEF Summable
<1>4. Units(f, S) = UNION T
  <2>1. ASSUME NEW x \in S
        PROVE  Units(f, {x}) = {x} \X (1 .. f[x])
    BY DEF Units
  <2> QED
    BY <2>1 DEF Units
<1> QED
  BY <1>2, <1>3, <1>4, FS_UNION, FS_CardinalityType

Minus(f, S) == [x \in S |-> -f[x]]

LEMMA SumIs ==
    ASSUME NEW f, NEW S, Summable(f, S)
    PROVE  /\ SumOf(f, S) = Cardinality(Units(f, S)) - Cardinality(Units(Minus(f, S), S))
           /\ Summable(Minus(f, S), S)
           /\ SumOf(f, S) \in Int
<1>1. SumOf(f, S) = Cardinality(Units(f, S)) - Cardinality(Units(Minus(f, S), S))
  BY DEF SumOf, Minus
<1>2. Summable(Minus(f, S), S)
  BY DEF Summable, Minus
<1> QED
  BY <1>1, <1>2, UnitsFinite

LEMMA SumSame ==
    ASSUME NEW f, NEW g, NEW S, \A x \in S : f[x] = g[x]
    PROVE  SumOf(f, S) = SumOf(g, S)
<1>1. [x \in S |-> -f[x]] = [x \in S |-> -g[x]]
  OBVIOUS
<1> QED
  BY <1>1, UnitsSame DEF SumOf

LEMMA SumUnion ==
    ASSUME NEW f, NEW S, NEW T, S \cap T = {}, Summable(f, S), Summable(f, T)
    PROVE  /\ Summable(f, S \cup T)
           /\ SumOf(f, S \cup T) = SumOf(f, S) + SumOf(f, T)
<1>1. Summable(f, S \cup T)
  BY FS_Union DEF Summable
<1>2. ASSUME NEW g, Summable(g, S), Summable(g, T)
      PROVE  Cardinality(Units(g, S \cup T)) = Cardinality(Units(g, S)) + Cardinality(Units(g, T))
  <2>1. Units(g, S) \cap Units(g, T) = {}
    BY UnitsUnion
  <2>2. PICK A : A = Units(g, S)
    OBVIOUS
  <2>3. PICK B : B = Units(g, T)
    OBVIOUS
  <2>4. IsFiniteSet(A) /\ IsFiniteSet(B) /\ Cardinality(A) \in Nat /\ Cardinality(B) \in Nat
    BY <1>2, <2>2, <2>3, UnitsFinite
  <2>5. Cardinality(A \cup B) = Cardinality(A) + Cardinality(B) - Cardinality(A \cap B)
    BY <2>4, FS_Union
  <2>6. Units(g, S \cup T) = A \cup B
    BY <2>2, <2>3, UnitsUnion
  <2>7. Cardinality(A \cap B) = 0
    BY <2>1, <2>2, <2>3, FS_EmptySet
  <2>8. Cardinality(A \cup B) = Cardinality(A) + Cardinality(B)
    BY <2>4, <2>5, <2>7
  <2> QED
    BY <2>2, <2>3, <2>6, <2>8
<1>3. PICK m : m = Minus(f, S \cup T)
  OBVIOUS
<1>4. Summable(m, S) /\ Summable(m, T)
  BY <1>3 DEF Summable, Minus
<1>5. Units(Minus(f, S), S) = Units(m, S) /\ Units(Minus(f, T), T) = Units(m, T)
  BY <1>3, UnitsSame DEF Minus
<1>6. /\ Cardinality(Units(f, S)) \in Nat /\ Cardinality(Units(f, T)) \in Nat
      /\ Cardinality(Units(m, S)) \in Nat /\ Cardinality(Units(m, T)) \in Nat
  BY <1>4, UnitsFinite
<1>7. /\ Cardinality(Units(f, S \cup T)) = Cardinality(Units(f, S)) + Cardinality(Units(f, T))
      /\ Cardinality(Units(m, S \cup T)) = Cardinality(Units(m, S)) + Cardinality(Units(m, T))
  BY <1>2, <1>4
<1>8. /\ SumOf(f, S) = Cardinality(Units(f, S)) - Cardinality(Units(m, S))
      /\ SumOf(f, T) = Cardinality(Units(f, T)) - Cardinality(Units(m, T))
      /\ SumOf(f, S \cup T) = Cardinality(Units(f, S \cup T)) - Cardinality(Units(m, S \cup T))
  BY <1>1, <1>3, <1>5, SumIs
<1> QED
  BY <1>1, <1>6, <1>7, <1>8

LEMMA SumOne ==
    ASSUME NEW f, NEW x, f[x] \in Int
    PROVE  Summable(f, {x}) /\ SumOf(f, {x}) = f[x]
<1>1. Summable(f, {x})
  BY FS_Singleton DEF Summable
<1>2. PICK m : m = Minus(f, {x})
  OBVIOUS
<1>3. m[x] = -f[x] /\ m[x] \in Int
  BY <1>2 DEF Minus
<1>4. Cardinality(Units(f, {x})) = IF f[x] > 0 THEN f[x] ELSE 0
  BY UnitsOne
<1>5. Cardinality(Units(m, {x})) = IF m[x] > 0 THEN m[x] ELSE 0
  BY <1>3, UnitsOne
<1>6. SumOf(f, {x}) = Cardinality(Units(f, {x})) - Cardinality(Units(m, {x}))
  BY <1>1, <1>2, SumIs
<1> QED
  BY <1>1, <1>3, <1>4, <1>5, <1>6

LEMMA SumZero ==
    ASSUME NEW f, NEW S, \A x \in S : f[x] = 0
    PROVE  SumOf(f, S) = 0
<1>1. ASSUME NEW g, \A x \in S : g[x] = 0
      PROVE  Units(g, S) = {}
  <2>1. \A x \in S : 1 .. g[x] = {}
    BY <1>1
  <2> QED
    BY <2>1 DEF Units
<1>2. Units(f, S) = {} /\ Units([x \in S |-> -f[x]], S) = {}
  BY <1>1
<1> QED
  BY <1>2, FS_EmptySet DEF SumOf

\* Without one member.
LEMMA SumWithout ==
    ASSUME NEW f, NEW S, Summable(f, S), NEW x \in S
    PROVE  /\ Summable(f, S \ {x})
           /\ SumOf(f, S \ {x}) \in Int
           /\ SumOf(f, S) = SumOf(f, S \ {x}) + f[x]
<1>1. PICK T : T = S \ {x}
  OBVIOUS
<1>2. Summable(f, T)
  BY <1>1, FS_Subset DEF Summable
<1>3. T \cap {x} = {} /\ S = T \cup {x} /\ f[x] \in Int
  BY <1>1 DEF Summable
<1>4. Summable(f, {x}) /\ SumOf(f, {x}) = f[x]
  BY <1>3, SumOne
<1>5. SumOf(f, T \cup {x}) = SumOf(f, T) + SumOf(f, {x})
  BY <1>2, <1>3, <1>4, SumUnion
<1>6. SumOf(f, T) \in Int
  BY <1>2, SumIs
<1> QED
  BY <1>1, <1>2, <1>3, <1>4, <1>5, <1>6

\* With one value changed.
LEMMA SumChanges ==
    ASSUME NEW f, NEW g, NEW S, Summable(f, S), Summable(g, S), NEW x \in S,
           \A y \in S \ {x} : f[y] = g[y]
    PROVE  SumOf(g, S) = SumOf(f, S) + g[x] - f[x]
<1>1. SumOf(f, S) = SumOf(f, S \ {x}) + f[x] /\ SumOf(f, S \ {x}) \in Int
  BY SumWithout
<1>2. SumOf(g, S) = SumOf(g, S \ {x}) + g[x]
  BY SumWithout
<1>3. SumOf(f, S \ {x}) = SumOf(g, S \ {x})
  BY SumSame
<1>4. f[x] \in Int /\ g[x] \in Int
  BY DEF Summable
<1> QED
  BY <1>1, <1>2, <1>3, <1>4

LEMMA SumGrows ==
    ASSUME NEW f, NEW g, NEW S, Summable(f, S), Summable(g, S), \A x \in S : f[x] <= g[x]
    PROVE  SumOf(f, S) <= SumOf(g, S)
<1>1. ASSUME NEW a, NEW b, Summable(a, S), Summable(b, S), \A x \in S : a[x] <= b[x]
      PROVE  Cardinality(Units(a, S)) <= Cardinality(Units(b, S))
  <2>1. \A x \in S : 1 .. a[x] \subseteq 1 .. b[x]
    BY <1>1 DEF Summable
  <2>2. Units(a, S) \subseteq Units(b, S)
    BY <2>1 DEF Units
  <2>3. IsFiniteSet(Units(b, S))
    BY <1>1, UnitsFinite
  <2> QED
    BY <2>2, <2>3, FS_Subset
<1>2. PICK m : m = Minus(f, S)
  OBVIOUS
<1>3. PICK n : n = Minus(g, S)
  OBVIOUS
<1>4. Summable(m, S) /\ Summable(n, S)
  BY <1>2, <1>3, SumIs
<1>5. \A x \in S : n[x] <= m[x]
  BY <1>2, <1>3 DEF Summable, Minus
<1>6. /\ Cardinality(Units(f, S)) <= Cardinality(Units(g, S))
      /\ Cardinality(Units(n, S)) <= Cardinality(Units(m, S))
  BY <1>1, <1>4, <1>5
<1>7. /\ Cardinality(Units(f, S)) \in Nat /\ Cardinality(Units(g, S)) \in Nat
      /\ Cardinality(Units(n, S)) \in Nat /\ Cardinality(Units(m, S)) \in Nat
  BY <1>4, UnitsFinite
<1>8. /\ SumOf(f, S) = Cardinality(Units(f, S)) - Cardinality(Units(m, S))
      /\ SumOf(g, S) = Cardinality(Units(g, S)) - Cardinality(Units(n, S))
  BY <1>2, <1>3, SumIs
<1> QED
  BY <1>6, <1>7, <1>8

\* One more at x counts in the sums over x.
LEMMA SumOneMore ==
    ASSUME NEW f, NEW g, NEW S, Summable(f, S), Summable(g, S), NEW x,
           \A y \in S : g[y] = IF y = x THEN f[y] + 1 ELSE f[y]
    PROVE  /\ SumOf(f, S) \in Int
           /\ SumOf(g, S) = SumOf(f, S) + (IF x \in S THEN 1 ELSE 0)
<1>2. SumOf(f, S) \in Int
  BY SumIs
<1>3. CASE x \in S
  <2>1. SumOf(g, S) = SumOf(f, S) + g[x] - f[x]
    BY <1>3, SumChanges
  <2>2. f[x] \in Int /\ g[x] = f[x] + 1
    BY <1>3 DEF Summable
  <2> QED
    BY <1>2, <1>3, <2>1, <2>2
<1>4. CASE x \notin S
  <2>1. \A y \in S : g[y] = f[y]
    BY <1>4
  <2>2. SumOf(g, S) = SumOf(f, S)
    BY <2>1, SumSame
  <2> QED
    BY <1>2, <1>4, <2>2
<1> QED
  BY <1>2, <1>3, <1>4

-----------------------------------------------------------------------------
(* The counter of drops.                                                   *)

\* What each worker before its increment is about to add to the counter.
Claims ==
    [w \in Workers |->
        IF place[w] = "increment" /\ total_dropped[w] > previous[w]
        THEN total_dropped[w] - previous[w] ELSE 0]

\* What the counter will be when they have.
Exported == sink_dropped_counter + SumOf(Claims, Workers)

\* Worker w is going to find all the drops there are, or has done so.
Witness(w) ==
    \/ place[w] = "submit"
    \/ place[w] = "load" /\ SumOf(sinkDropped, 1 .. sink[w] - 1) <= total_dropped[w]
    \/ place[w] = "exchange" /\ Drops <= total_dropped[w]

ExportInv ==
    /\ DropsTyped
    /\ last_sink_dropped <= Exported
    /\ Drops <= Exported \/ \E w \in Workers : Witness(w)

\* The sums have numbers to add up.
LEMMA ExportSums ==
    ASSUME DropsTyped
    PROVE  /\ Summable(Claims, Workers)
           /\ \A S \in SUBSET Sinks : Summable(sinkDropped, S)
           /\ Drops \in Int /\ SumOf(Claims, Workers) \in Int /\ Exported \in Int
<1>1. IsFiniteSet(Sinks)
  BY MetricsAssumption, FS_Interval DEF MetricsAssumption, Sinks
<1>2. \A S \in SUBSET Sinks : Summable(sinkDropped, S)
  BY <1>1, FS_Subset DEF DropsTyped, Summable
<1>3. Summable(Claims, Workers)
  <2>1. ASSUME NEW w \in Workers PROVE Claims[w] \in Int
    BY DEF Claims, DropsTyped
  <2> QED
    BY <2>1, MetricsAssumption DEF MetricsAssumption, Summable
<1>4. Drops \in Int /\ SumOf(Claims, Workers) \in Int
  BY <1>2, <1>3, SumIs DEF Drops
<1> QED
  BY <1>2, <1>3, <1>4 DEF Exported, DropsTyped

\* A step in which w alone changes what it claims, to n.
LEMMA ClaimChanges ==
    ASSUME DropsTyped, DropsTyped', NEW w \in Workers,
           \A v \in Workers \ {w} :
               /\ place'[v] = place[v]
               /\ total_dropped'[v] = total_dropped[v] /\ previous'[v] = previous[v]
    PROVE  /\ Claims[w] \in Int /\ Claims'[w] \in Int
           /\ SumOf(Claims', Workers) = SumOf(Claims, Workers) + Claims'[w] - Claims[w]
<1>1. PICK f, g : f = Claims /\ g = Claims'
  OBVIOUS
<1>2. \A v \in Workers : f[v] \in Int /\ g[v] \in Int
  <2>1. ASSUME NEW v \in Workers PROVE Claims[v] \in Int
    BY DEF Claims, DropsTyped
  <2>2. ASSUME NEW v \in Workers PROVE Claims'[v] \in Int
    BY DEF Claims, DropsTyped
  <2> QED
    BY <1>1, <2>1, <2>2
<1>3. \A v \in Workers \ {w} : f[v] = g[v]
  BY <1>1 DEF Claims
<1>4. Summable(f, Workers) /\ Summable(g, Workers)
  BY <1>2, MetricsAssumption DEF MetricsAssumption, Summable
<1>5. SumOf(g, Workers) = SumOf(f, Workers) + g[w] - f[w]
  BY <1>3, <1>4, SumChanges
<1> QED
  BY <1>1, <1>2, <1>5

\* The types, and what a step of w leaves to the others.
LEMMA DropsTypedNext ==
    ASSUME DropsTyped, NEW w \in Workers,
           BeginPublish(w) \/ Submit(w) \/ LoadDropped(w) \/ ExchangeLast(w) \/ Increment(w)
    PROVE  /\ DropsTyped'
           /\ \A v \in Workers \ {w} :
                  /\ place'[v] = place[v] /\ sink'[v] = sink[v]
                  /\ total_dropped'[v] = total_dropped[v] /\ previous'[v] = previous[v]
<1>1. CASE BeginPublish(w)
  <2>1. batches' \in [Workers -> 0 .. MaxBatches]
    BY <1>1, MetricsAssumption DEF BeginPublish, DropsTyped, MetricsAssumption
  <2>2. place' \in [Workers -> UpdateSteps]
    BY <1>1 DEF BeginPublish, StepTo, DropsTyped, UpdateSteps
  <2> QED
    BY <1>1, <2>1, <2>2 DEF BeginPublish, StepTo, DropsTyped
<1>2. ASSUME NEW here \in UpdateSteps, NEW after \in UpdateSteps, ForEachSink(w, here, after)
      PROVE  /\ place' \in [Workers -> UpdateSteps] /\ sink' \in [Workers -> Sinks]
             /\ \A v \in Workers \ {w} : place'[v] = place[v] /\ sink'[v] = sink[v]
  <2>1. sink[w] < NumSinks => sink[w] + 1 \in Sinks
    BY MetricsAssumption DEF MetricsAssumption, DropsTyped, Sinks
  <2>2. 1 \in Sinks
    BY MetricsAssumption DEF MetricsAssumption, Sinks
  <2> QED
    BY <1>2, <2>1, <2>2 DEF ForEachSink, StepTo, DropsTyped
<1>3. CASE Submit(w)
  <2>1. ForEachSink(w, "submit", "load") /\ "submit" \in UpdateSteps /\ "load" \in UpdateSteps
    BY <1>3 DEF Submit, UpdateSteps
  <2>2. sinkDropped' \in [Sinks -> Nat]
    BY <1>3 DEF Submit, DropsTyped
  <2>3. /\ total_dropped' \in [Workers -> Nat]
        /\ \A v \in Workers \ {w} : total_dropped'[v] = total_dropped[v]
    BY <1>3 DEF Submit, DropsTyped
  <2> QED
    BY <1>2, <1>3, <2>1, <2>2, <2>3 DEF Submit, DropsTyped
<1>4. CASE LoadDropped(w)
  <2>1. ForEachSink(w, "load", "exchange") /\ "load" \in UpdateSteps /\ "exchange" \in UpdateSteps
    BY <1>4 DEF LoadDropped, UpdateSteps
  <2>2. /\ total_dropped' \in [Workers -> Nat]
        /\ \A v \in Workers \ {w} : total_dropped'[v] = total_dropped[v]
    BY <1>4 DEF LoadDropped, DropsTyped
  <2> QED
    BY <1>2, <1>4, <2>1, <2>2 DEF LoadDropped, DropsTyped
<1>5. CASE ExchangeLast(w)
  BY <1>5 DEF ExchangeLast, StepTo, DropsTyped, UpdateSteps
<1>6. CASE Increment(w)
  <2>1. sink_dropped_counter' \in Nat
    <3>1. total_dropped[w] \in Nat /\ previous[w] \in Nat /\ sink_dropped_counter \in Nat
      BY DEF DropsTyped
    <3> QED
      BY <1>6, <3>1 DEF Increment
  <2> QED
    BY <1>6, <2>1 DEF Increment, StepTo, DropsTyped, UpdateSteps
<1> QED
  BY <1>1, <1>3, <1>4, <1>5, <1>6

\* A worker that neither gets to its increment nor leaves it claims nothing.
LEMMA SameExported ==
    ASSUME DropsTyped, DropsTyped', NEW w \in Workers,
           place[w] # "increment", place'[w] # "increment",
           sink_dropped_counter' = sink_dropped_counter,
           \A v \in Workers \ {w} :
               /\ place'[v] = place[v]
               /\ total_dropped'[v] = total_dropped[v] /\ previous'[v] = previous[v]
    PROVE  Exported' = Exported
<1>1. Claims[w] = 0 /\ Claims'[w] = 0
  BY DEF Claims
<1>2. SumOf(Claims', Workers) = SumOf(Claims, Workers) + Claims'[w] - Claims[w]
  BY ClaimChanges
<1>3. SumOf(Claims, Workers) \in Int
  BY ExportSums
<1>4. SumOf(Claims', Workers) = SumOf(Claims, Workers)
  BY <1>1, <1>2, <1>3
<1> QED
  BY <1>4 DEF Exported

LEMMA BeginKeepsExport ==
    ASSUME ExportInv, NEW w \in Workers, BeginPublish(w)
    PROVE  ExportInv'
<1>1. /\ place[w] = "idle" /\ place'[w] = "submit"
      /\ UNCHANGED <<sinkDropped, last_sink_dropped, sink_dropped_counter, sink, total_dropped, previous>>
  BY DEF BeginPublish, StepTo, ExportInv, DropsTyped
<1>2. DropsTyped' /\ \A v \in Workers \ {w} : place'[v] = place[v]
  BY DropsTypedNext DEF ExportInv
<1>3. Exported' = Exported
  BY <1>1, <1>2, SameExported DEF ExportInv
<1>4. Witness(w)'
  BY <1>1 DEF Witness
<1> QED
  BY <1>1, <1>2, <1>3, <1>4 DEF ExportInv

\* A submit that drops makes the worker that made it the one to find it.
LEMMA SubmitKeepsExport ==
    ASSUME ExportInv, NEW w \in Workers, Submit(w)
    PROVE  ExportInv'
<1>1. DropsTyped
  BY DEF ExportInv
<1>2. /\ place[w] = "submit" /\ total_dropped'[w] = 0
      /\ \/ place'[w] = "submit"
         \/ place'[w] = "load" /\ sink'[w] = 1
      /\ UNCHANGED <<last_sink_dropped, sink_dropped_counter, previous>>
  BY <1>1 DEF Submit, ForEachSink, StepTo, DropsTyped
<1>3. DropsTyped' /\ \A v \in Workers \ {w} : /\ place'[v] = place[v]
                                              /\ total_dropped'[v] = total_dropped[v]
                                              /\ previous'[v] = previous[v]
  BY <1>1, DropsTypedNext
<1>4. Exported' = Exported
  BY <1>1, <1>2, <1>3, SameExported
<1>5. Witness(w)'
  <2>1. CASE place'[w] = "submit"
    BY <2>1 DEF Witness
  <2>2. CASE place'[w] = "load" /\ sink'[w] = 1
    <3>1. 1 .. sink'[w] - 1 = {}
      BY <2>2
    <3>2. SumOf(sinkDropped', 1 .. sink'[w] - 1) = 0
      BY <3>1, SumZero
    <3> QED
      BY <1>2, <2>2, <3>2 DEF Witness
  <2> QED
    BY <1>2, <2>1, <2>2
<1> QED
  BY <1>2, <1>3, <1>4, <1>5 DEF ExportInv

\* A load adds the drops of one more sink to the sum.
LEMMA LoadKeepsExport ==
    ASSUME ExportInv, NEW w \in Workers, LoadDropped(w)
    PROVE  ExportInv'
<1>1. DropsTyped
  BY DEF ExportInv
<1>2. PICK s \in Sinks, d \in Nat, c \in Nat :
          s = sink[w] /\ d = sinkDropped[s] /\ c = total_dropped[w]
  BY <1>1 DEF DropsTyped
<1>3. /\ place[w] = "load" /\ total_dropped'[w] = c + d
      /\ \/ place'[w] = "load" /\ sink'[w] = s + 1
         \/ place'[w] = "exchange" /\ s = NumSinks
      /\ UNCHANGED <<sinkDropped, last_sink_dropped, sink_dropped_counter, previous>>
  BY <1>1, <1>2 DEF LoadDropped, ForEachSink, StepTo, DropsTyped
<1>4. DropsTyped' /\ \A v \in Workers \ {w} : /\ place'[v] = place[v] /\ sink'[v] = sink[v]
                                              /\ total_dropped'[v] = total_dropped[v]
                                              /\ previous'[v] = previous[v]
  BY <1>1, DropsTypedNext
<1>5. Exported' = Exported
  BY <1>1, <1>3, <1>4, SameExported
<1>6. Drops' = Drops
  BY <1>3 DEF Drops
<1>7. s \in Nat /\ 1 <= s /\ s <= NumSinks /\ NumSinks \in Nat
  BY <1>2, MetricsAssumption DEF MetricsAssumption, Sinks
<1>8. ASSUME Witness(w)
      PROVE  Witness(w)'
  <2>1. SumOf(sinkDropped, 1 .. s - 1) <= c
    BY <1>2, <1>3, <1>8 DEF Witness
  <2>2. 1 .. s \in SUBSET Sinks /\ s \in 1 .. s /\ (1 .. s) \ {s} = 1 .. s - 1
    BY <1>7 DEF Sinks
  <2>3. SumOf(sinkDropped, 1 .. s) = SumOf(sinkDropped, 1 .. s - 1) + d
    BY <1>1, <1>2, <2>2, ExportSums, SumWithout
  <2>4. SumOf(sinkDropped, 1 .. s - 1) \in Int
    BY <1>1, <2>2, ExportSums, SumIs
  <2>5. SumOf(sinkDropped, 1 .. s) <= total_dropped'[w]
    BY <1>3, <2>1, <2>3, <2>4
  <2>6. CASE place'[w] = "load" /\ sink'[w] = s + 1
    <3>1. sink'[w] - 1 = s
      BY <1>7, <2>6
    <3> QED
      BY <1>3, <2>5, <2>6, <3>1 DEF Witness
  <2>7. CASE place'[w] = "exchange" /\ s = NumSinks
    BY <1>6, <2>5, <2>7 DEF Witness, Drops, Sinks
  <2> QED
    BY <1>3, <2>6, <2>7
<1>9. ASSUME NEW v \in Workers, Witness(v)
      PROVE  Witness(v)'
  <2>1. CASE v = w
    BY <1>8, <1>9, <2>1
  <2>2. CASE v # w
    BY <1>3, <1>4, <1>6, <1>9, <2>2 DEF Witness
  <2> QED
    BY <2>1, <2>2
<1> QED
  BY <1>3, <1>4, <1>5, <1>6, <1>9 DEF ExportInv

\* An exchange claims what its sum is above the last one.
LEMMA ExchangeKeepsExport ==
    ASSUME ExportInv, NEW w \in Workers, ExchangeLast(w)
    PROVE  ExportInv'
<1>1. DropsTyped
  BY DEF ExportInv
<1>2. PICK a \in Nat, b \in Nat : a = last_sink_dropped /\ b = total_dropped[w]
  BY <1>1 DEF DropsTyped
<1>3. /\ place[w] = "exchange" /\ place'[w] = "increment"
      /\ previous'[w] = a /\ last_sink_dropped' = b
      /\ UNCHANGED <<sinkDropped, sink_dropped_counter, sink, total_dropped>>
  BY <1>1, <1>2 DEF ExchangeLast, StepTo, DropsTyped
<1>4. DropsTyped' /\ \A v \in Workers \ {w} : /\ place'[v] = place[v]
                                              /\ previous'[v] = previous[v]
  BY <1>1, DropsTypedNext
<1>5. Claims[w] = 0 /\ Claims'[w] = IF b > a THEN b - a ELSE 0
  BY <1>2, <1>3 DEF Claims
<1>6. Exported' = Exported + (IF b > a THEN b - a ELSE 0)
  <2>1. SumOf(Claims', Workers) = SumOf(Claims, Workers) + Claims'[w] - Claims[w]
    BY <1>1, <1>3, <1>4, ClaimChanges
  <2>2. SumOf(Claims, Workers) \in Int /\ sink_dropped_counter \in Nat
    BY <1>1, ExportSums DEF DropsTyped
  <2>3. SumOf(Claims', Workers) = SumOf(Claims, Workers) + (IF b > a THEN b - a ELSE 0)
    BY <1>5, <2>1, <2>2
  <2> QED
    BY <1>3, <2>2, <2>3 DEF Exported
<1>7. PICK e \in Int : e = Exported
  BY <1>1, ExportSums
<1>8. a <= e
  BY <1>2, <1>7 DEF ExportInv
<1>9. e <= Exported' /\ b <= Exported' /\ Exported' \in Int
  BY <1>6, <1>7, <1>8
<1>10. Drops' = Drops /\ Drops \in Int
  BY <1>1, <1>3, ExportSums DEF Drops
<1>11. Drops' <= Exported' \/ \E v \in Workers : Witness(v)'
  <2>1. CASE Drops <= Exported
    BY <1>7, <1>9, <1>10, <2>1
  <2>2. CASE Witness(w)
    <3>1. Drops <= b
      BY <1>2, <1>3, <2>2 DEF Witness
    <3> QED
      BY <1>9, <1>10, <3>1
  <2>3. ASSUME NEW v \in Workers \ {w}, Witness(v)
        PROVE  Witness(v)'
    BY <1>3, <1>4, <1>10, <2>3 DEF Witness
  <2> QED
    BY <2>1, <2>2, <2>3 DEF ExportInv
<1> QED
  BY <1>3, <1>4, <1>9, <1>11 DEF ExportInv

\* An increment adds what was claimed.
LEMMA IncrementKeepsExport ==
    ASSUME ExportInv, NEW w \in Workers, Increment(w)
    PROVE  ExportInv'
<1>1. DropsTyped
  BY DEF ExportInv
<1>2. /\ place[w] = "increment" /\ place'[w] = "idle"
      /\ sink_dropped_counter' = sink_dropped_counter + Claims[w]
      /\ UNCHANGED <<sinkDropped, last_sink_dropped, sink, total_dropped, previous>>
  BY <1>1 DEF Increment, StepTo, DropsTyped, Claims
<1>3. DropsTyped' /\ \A v \in Workers \ {w} : place'[v] = place[v]
  BY <1>1, DropsTypedNext
<1>4. Claims'[w] = 0
  BY <1>2 DEF Claims
<1>5. Exported' = Exported
  <2>1. /\ Claims[w] \in Int
        /\ SumOf(Claims', Workers) = SumOf(Claims, Workers) + Claims'[w] - Claims[w]
    BY <1>1, <1>2, <1>3, ClaimChanges
  <2>2. SumOf(Claims, Workers) \in Int /\ sink_dropped_counter \in Nat
    BY <1>1, ExportSums DEF DropsTyped
  <2>3. SumOf(Claims', Workers) = SumOf(Claims, Workers) - Claims[w]
    BY <1>4, <2>1, <2>2
  <2> QED
    BY <1>2, <2>1, <2>2, <2>3 DEF Exported
<1>6. Drops' = Drops
  BY <1>2 DEF Drops
<1>7. ASSUME NEW v \in Workers, Witness(v)
      PROVE  Witness(v)'
  <2>1. v # w
    BY <1>2, <1>7 DEF Witness
  <2> QED
    BY <1>2, <1>3, <1>6, <1>7, <2>1 DEF Witness
<1> QED
  BY <1>2, <1>3, <1>5, <1>6, <1>7 DEF ExportInv

LEMMA NextKeepsExport == ExportInv /\ [DropNext]_dropVars => ExportInv'
<1> SUFFICES ASSUME ExportInv, [DropNext]_dropVars PROVE ExportInv'
  OBVIOUS
<1>1. CASE UNCHANGED dropVars
  <2>1. Exported' = Exported /\ Drops' = Drops
    BY <1>1 DEF dropVars, Claims, Exported, Drops
  <2>2. \A w \in Workers : Witness(w)' <=> Witness(w)
    BY <1>1, <2>1 DEF dropVars, Witness
  <2>3. DropsTyped'
    BY <1>1 DEF dropVars, ExportInv, DropsTyped
  <2> QED
    BY <1>1, <2>1, <2>2, <2>3 DEF dropVars, ExportInv
<1>2. CASE DropNext
  BY <1>2, BeginKeepsExport, SubmitKeepsExport, LoadKeepsExport, ExchangeKeepsExport,
     IncrementKeepsExport DEF DropNext
<1> QED
  BY <1>1, <1>2

LEMMA InitExports == DropInit => ExportInv
<1> SUFFICES ASSUME DropInit PROVE ExportInv
  OBVIOUS
<1>1. DropsTyped
  BY MetricsAssumption DEF MetricsAssumption, DropInit, DropsTyped, Sinks, UpdateSteps
<1>2. Drops = 0
  BY SumZero DEF DropInit, Drops
<1>3. SumOf(Claims, Workers) = 0
  BY SumZero DEF DropInit, Claims
<1> QED
  BY <1>1, <1>2, <1>3 DEF ExportInv, Exported, DropInit

(* With any number of workers and sinks: once no worker is in              *)
(* update_sink_metrics, the exported counter is at least what the sinks    *)
(* have dropped.  The worker of the last drop loads every sink after it,   *)
(* and no exchange claims less than its sum is above the one before.       *)
THEOREM NoDropIsMissing == DropSpec => []NoDropMissing
<1>1. ExportInv => NoDropMissing
  <2> SUFFICES ASSUME ExportInv, AtRest PROVE Drops <= Exported /\ Exported = sink_dropped_counter
    BY ExportSums DEF NoDropMissing, ExportInv, DropsTyped
  <2>1. \A w \in Workers : ~Witness(w)
    BY DEF AtRest, Witness
  <2>2. \A w \in Workers : Claims[w] = 0
    BY DEF AtRest, Claims
  <2>3. SumOf(Claims, Workers) = 0
    BY <2>2, SumZero
  <2> QED
    BY <2>1, <2>3 DEF ExportInv, Exported, DropsTyped
<1> QED
  BY <1>1, InitExports, NextKeepsExport, PTL DEF DropSpec

-----------------------------------------------------------------------------
(* The histogram.                                                          *)

\* The values that a bucket counts, and those below any boundary of a set.
InBucket(u) == {v \in Values : BucketFor(u, v)}
BelowSome(S) == {v \in Values : \E u \in S : v < u}

\* Observers that have still to count, and the values still to be summed up.
Counting == {t \in Observers : observer[t].step = "count"}
InHand == [t \in Observers |-> observer[t].value]
Amounts == [v \in Values |-> v * observations[v]]

\* The buckets that the snapshot has, and those it has not.
Taken == DOMAIN result.buckets
Left == Uppers \ Taken

Calls == [step : {"idle", "count", "sum"}, value : Values \cup {0}]

HistogramTyped ==
    /\ bucket_counts \in [Uppers -> Nat] /\ sample_count \in Nat /\ sample_sum \in Int
    /\ observer \in [Observers -> Calls]
    /\ \A t \in Observers : observer[t].step = "idle" => observer[t].value = 0
    /\ reader \in 0 .. 3
    /\ observations \in [Values -> Nat] /\ earlier \in [Values -> Nat]
    /\ \E S \in SUBSET Uppers :
           result \in [count : Nat, sum : Int, cumulative : Nat, buckets : [S -> Nat]]

\* The buckets hold what was observed, one by one and added up, and what is not
\* in the count and the sum yet is about to be.
AllAdded ==
    /\ \A u \in Uppers : bucket_counts[u] = SumOf(observations, InBucket(u))
    /\ \A u \in Uppers :
           SumOf(bucket_counts, {x \in Uppers : x <= u}) = Below(observations, u)
    /\ sample_count + Cardinality(Counting) = SumOf(observations, Values)
    /\ sample_sum + SumOf(InHand, Observers) = SumOf(Amounts, Values)

\* A snapshot has the buckets up to some boundary, with no less than what was
\* observed before it and no more than what has been since.  Its count is no
\* more than its buckets are with those it has still to read.
Covers(low, n, high) == low <= n /\ n <= high

SnapshotGrows ==
    /\ \A v \in Values : earlier[v] <= observations[v]
    /\ \A u \in Taken : \A x \in Left : u < x
    /\ Covers(SumOf(earlier, BelowSome(Taken)), result.cumulative,
              SumOf(observations, BelowSome(Taken)))
    /\ \A u \in Taken : Covers(Below(earlier, u), result.buckets[u], Below(observations, u))
    /\ Infinity \in Taken => result.buckets[Infinity] = result.cumulative
    /\ reader = 1 => Taken = {} /\ result.cumulative = 0
    /\ reader \in {2, 3} \/ (reader = 0 /\ Left = {}) =>
           result.count <= result.cumulative + SumOf(bucket_counts, Left)

HistogramInv == HistogramTyped /\ AllAdded /\ SnapshotGrows

LEMMA HistogramConstants ==
    /\ IsFiniteSet(Observers) /\ IsFiniteSet(Values) /\ IsFiniteSet(Uppers)
    /\ Values \subseteq Int /\ Uppers \subseteq Int /\ Infinity \in Uppers
    /\ \A u \in Uppers : u <= Infinity
    /\ \A v \in Values : v < Infinity
    /\ \A S \in SUBSET Values : IsFiniteSet(S)
    /\ \A S \in SUBSET Uppers : IsFiniteSet(S)
<1>1. IsFiniteSet(Uppers)
  BY HistogramAssumption, FS_AddElement DEF HistogramAssumption, Uppers
<1>2. IsFiniteSet(Observers) /\ IsFiniteSet(Values)
  BY HistogramAssumption DEF HistogramAssumption
<1>3. \A S \in SUBSET Values : IsFiniteSet(S)
  BY <1>2, FS_Subset
<1>4. \A S \in SUBSET Uppers : IsFiniteSet(S)
  BY <1>1, FS_Subset
<1>5. /\ Values \subseteq Int /\ Uppers \subseteq Int /\ Infinity \in Uppers
      /\ \A u \in Uppers : u <= Infinity
      /\ \A v \in Values : v < Infinity
  BY HistogramAssumption DEF HistogramAssumption, Uppers
<1> QED
  BY <1>1, <1>2, <1>3, <1>4, <1>5

\* A value has one bucket, which is up to a boundary if the value is below it.
LEMMA BucketIs ==
    ASSUME NEW v \in Values, NEW u \in Uppers, BucketFor(u, v), NEW w \in Uppers
    PROVE  /\ v < u
           /\ u <= w <=> v < w
           /\ BucketFor(w, v) <=> w = u
<1>1. v \in Int /\ u \in Int /\ w \in Int
  BY HistogramConstants
<1>2. v < u /\ (u <= w <=> v < w)
  BY <1>1 DEF BucketFor
<1>3. BucketFor(w, v) => w <= u
  BY <1>1, <1>2 DEF BucketFor
<1>4. BucketFor(w, v) => v < w
  BY <1>1 DEF BucketFor
<1> QED
  BY <1>1, <1>2, <1>3, <1>4

LEMMA InHandSummable ==
    ASSUME NEW f \in [Observers -> Calls]
    PROVE  Summable([t \in Observers |-> f[t].value], Observers)
<1>1. Values \cup {0} \subseteq Int
  BY HistogramConstants
<1>2. ASSUME NEW t \in Observers PROVE f[t].value \in Int
  BY <1>1 DEF Calls
<1> QED
  BY <1>2, HistogramConstants DEF Summable

LEMMA AmountsSummable ==
    ASSUME NEW f \in [Values -> Nat]
    PROVE  Summable([v \in Values |-> v * f[v]], Values)
<1>1. ASSUME NEW v \in Values PROVE v * f[v] \in Int
  BY HistogramConstants
<1> QED
  BY <1>1, HistogramConstants DEF Summable

\* What the sums are about is finite and has numbers.
LEMMA SumsDefined ==
    ASSUME HistogramTyped
    PROVE  /\ \A S \in SUBSET Values :
                  /\ Summable(observations, S) /\ SumOf(observations, S) \in Int
                  /\ Summable(earlier, S) /\ SumOf(earlier, S) \in Int
           /\ \A S \in SUBSET Uppers : Summable(bucket_counts, S) /\ SumOf(bucket_counts, S) \in Int
           /\ Summable(InHand, Observers) /\ SumOf(InHand, Observers) \in Int
           /\ Summable(Amounts, Values) /\ SumOf(Amounts, Values) \in Int
           /\ IsFiniteSet(Counting) /\ Cardinality(Counting) \in Nat
<1>1. ASSUME NEW S \in SUBSET Values
      PROVE  Summable(observations, S) /\ Summable(earlier, S)
  BY HistogramConstants DEF HistogramTyped, Summable
<1>2. ASSUME NEW S \in SUBSET Uppers
      PROVE  Summable(bucket_counts, S)
  BY HistogramConstants DEF HistogramTyped, Summable
<1>3. Summable(InHand, Observers)
  BY InHandSummable DEF HistogramTyped, InHand
<1>4. Summable(Amounts, Values)
  BY AmountsSummable DEF HistogramTyped, Amounts
<1>5. IsFiniteSet(Counting) /\ Cardinality(Counting) \in Nat
  BY HistogramConstants, FS_Subset, FS_CardinalityType DEF Counting
<1> QED
  BY <1>1, <1>2, <1>3, <1>4, <1>5, SumIs

LEMMA HistogramStarts == HistogramInit => HistogramInv
<1> SUFFICES ASSUME HistogramInit PROVE HistogramInv
  OBVIOUS
<1>1. /\ \A u \in Uppers : bucket_counts[u] = 0
      /\ \A v \in Values : observations[v] = 0 /\ earlier[v] = 0
      /\ \A t \in Observers : observer[t] = Idle
      /\ Taken = {} /\ reader = 0 /\ result.cumulative = 0
  BY DEF HistogramInit, Nothing, Empty, Taken
<1>2. HistogramTyped
  <2>1. Idle \in Calls /\ Idle.step = "idle" /\ Idle.value = 0
    BY DEF Idle, Calls
  <2>2. result \in [count : Nat, sum : Int, cumulative : Nat, buckets : [{} -> Nat]]
    BY DEF HistogramInit, Empty
  <2>3. \E S \in SUBSET Uppers :
            result \in [count : Nat, sum : Int, cumulative : Nat, buckets : [S -> Nat]]
    BY <2>2
  <2> QED
    BY <2>1, <2>3 DEF HistogramInit, HistogramTyped, Nothing
<1>3. AllAdded
  <2>1. \A u \in Uppers : SumOf(observations, InBucket(u)) = 0 /\ Below(observations, u) = 0
    BY <1>1, SumZero DEF InBucket, Below
  <2>2. \A u \in Uppers : SumOf(bucket_counts, {x \in Uppers : x <= u}) = 0
    BY <1>1, SumZero
  <2>3. Counting = {}
    BY <1>1 DEF Counting, Idle
  <2>4. Cardinality(Counting) = 0
    BY <2>3, FS_EmptySet
  <2>5. SumOf(observations, Values) = 0
    BY <1>1, SumZero
  <2>6. SumOf(InHand, Observers) = 0
    BY <1>1, SumZero DEF InHand, Idle
  <2>7. SumOf(Amounts, Values) = 0
    <3>1. ASSUME NEW v \in Values PROVE Amounts[v] = 0
      <4>1. v \in Int
        BY HistogramConstants
      <4> QED
        BY <1>1, <4>1 DEF Amounts
    <3> QED
      BY <3>1, SumZero
  <2> QED
    BY <1>1, <2>1, <2>2, <2>4, <2>5, <2>6, <2>7 DEF AllAdded, HistogramInit
<1>4. SnapshotGrows
  <2>1. SumOf(earlier, BelowSome(Taken)) = 0 /\ SumOf(observations, BelowSome(Taken)) = 0
    BY <1>1, SumZero DEF BelowSome
  <2>2. Left # {}
    BY <1>1, HistogramConstants DEF Left
  <2> QED
    BY <1>1, <2>1, <2>2 DEF SnapshotGrows, Covers
<1> QED
  BY <1>2, <1>3, <1>4 DEF HistogramInv

\* ReadBucket with u as the bucket it reads.
ReadsBucket(u) ==
    /\ \A x \in Left : u <= x
    /\ Read("buckets", Left = {u})
    /\ result' = [result EXCEPT
           !.cumulative = result.cumulative + bucket_counts[u],
           !.buckets = [x \in Taken \cup {u} |->
                           IF x = u THEN result.cumulative + bucket_counts[u]
                           ELSE result.buckets[x]]]

LEMMA ReadBucketIs ==
    ASSUME HistogramTyped, ReadBucket
    PROVE  \E u \in Left : ReadsBucket(u)
<1>1. PICK S \in SUBSET Uppers :
          result \in [count : Nat, sum : Int, cumulative : Nat, buckets : [S -> Nat]]
  BY DEF HistogramTyped
<1> QED
  BY <1>1 DEF ReadBucket, ReadsBucket, Left, Taken

LEMMA HistogramTypedNext ==
    ASSUME HistogramTyped, HistogramNext
    PROVE  HistogramTyped'
<1>1. ASSUME NEW t \in Observers, NEW v \in Values, Observe(t, v)
      PROVE  HistogramTyped'
  <2>1. [step |-> "count", value |-> v] \in Calls
    BY DEF Calls
  <2> QED
    BY <1>1, <2>1 DEF Observe, HistogramTyped
<1>2. ASSUME NEW t \in Observers, Count(t)
      PROVE  HistogramTyped'
  BY <1>2 DEF Count, Advance, HistogramTyped, Calls
<1>3. ASSUME NEW t \in Observers, Sum(t)
      PROVE  HistogramTyped'
  <2>1. Idle \in Calls /\ Idle.step = "idle" /\ Idle.value = 0
    BY DEF Idle, Calls
  <2>2. Values \cup {0} \subseteq Int
    BY HistogramConstants
  <2>3. sample_sum' \in Int
    BY <1>3, <2>2 DEF Sum, HistogramTyped, Calls
  <2> QED
    BY <1>3, <2>1, <2>3 DEF Sum, HistogramTyped
<1>4. CASE TakeSnapshot
  <2>1. result' \in [count : Nat, sum : Int, cumulative : Nat, buckets : [{} -> Nat]]
    BY <1>4 DEF TakeSnapshot, Empty
  <2>2. (\E S \in SUBSET Uppers :
            result \in [count : Nat, sum : Int, cumulative : Nat, buckets : [S -> Nat]])'
    BY <2>1
  <2> QED
    BY <1>4, <2>2 DEF TakeSnapshot, counts, HistogramTyped
<1>5. ASSUME NEW what, NEW done, Read(what, done)
      PROVE  reader' \in 0 .. 3
  BY <1>5 DEF Read, ReadOrder, HistogramTyped
<1>6. CASE ReadCount
  <2>1. reader' \in 0 .. 3
    BY <1>5, <1>6 DEF ReadCount
  <2> QED
    BY <1>6, <2>1 DEF ReadCount, Read, counts, HistogramTyped
<1>7. CASE ReadSum
  <2>1. reader' \in 0 .. 3
    BY <1>5, <1>7 DEF ReadSum
  <2> QED
    BY <1>7, <2>1 DEF ReadSum, Read, counts, HistogramTyped
<1>8. CASE ReadBucket
  <2>1. PICK S \in SUBSET Uppers :
            result \in [count : Nat, sum : Int, cumulative : Nat, buckets : [S -> Nat]]
    BY DEF HistogramTyped
  <2>2. PICK u \in Left : ReadsBucket(u)
    BY <1>8, ReadBucketIs
  <2>3. PICK n \in Nat : n = result.cumulative + bucket_counts[u]
    BY <2>1, <2>2 DEF HistogramTyped, Left
  <2>4. reader' \in 0 .. 3
    BY <1>5, <2>2 DEF ReadsBucket
  <2>5. result' \in [count : Nat, sum : Int, cumulative : Nat, buckets : [S \cup {u} -> Nat]]
    BY <2>1, <2>2, <2>3 DEF ReadsBucket, Taken
  <2>6. u \in Uppers
    BY <2>2 DEF Left
  <2>7. (\E T \in SUBSET Uppers :
            result \in [count : Nat, sum : Int, cumulative : Nat, buckets : [T -> Nat]])'
    BY <2>5, <2>6
  <2> QED
    BY <2>2, <2>4, <2>7 DEF ReadsBucket, Read, counts, HistogramTyped
<1> QED
  BY <1>1, <1>2, <1>3, <1>4, <1>6, <1>7, <1>8 DEF HistogramNext

\* An observation counts once in every sum it is in.
LEMMA ObserveSums ==
    ASSUME HistogramTyped, NEW t \in Observers, NEW v \in Values, Observe(t, v)
    PROVE  \E u \in Uppers :
               /\ BucketFor(u, v) /\ bucket_counts' = [bucket_counts EXCEPT ![u] = @ + 1]
               /\ \A S \in SUBSET Values :
                      /\ SumOf(observations, S) \in Int
                      /\ SumOf(observations', S) = SumOf(observations, S) + (IF v \in S THEN 1 ELSE 0)
               /\ \A S \in SUBSET Uppers :
                      /\ SumOf(bucket_counts, S) \in Int
                      /\ SumOf(bucket_counts', S) = SumOf(bucket_counts, S) + (IF u \in S THEN 1 ELSE 0)
<1>1. PICK u \in Uppers : BucketFor(u, v) /\ bucket_counts' = [bucket_counts EXCEPT ![u] = @ + 1]
  BY DEF Observe
<1>2. observations' = [observations EXCEPT ![v] = @ + 1]
  BY DEF Observe
<1>3. HistogramTyped'
  BY HistogramTypedNext DEF HistogramNext
<1>4. ASSUME NEW S \in SUBSET Values
      PROVE  /\ SumOf(observations, S) \in Int
             /\ SumOf(observations', S) = SumOf(observations, S) + (IF v \in S THEN 1 ELSE 0)
  <2>1. PICK f \in [Values -> Nat], g \in [Values -> Nat] : f = observations /\ g = observations'
    BY <1>3 DEF HistogramTyped
  <2>2. Summable(f, S) /\ Summable(g, S)
    BY <2>1, HistogramConstants DEF Summable
  <2>3. \A y \in S : g[y] = IF y = v THEN f[y] + 1 ELSE f[y]
    BY <1>2, <2>1
  <2>4. SumOf(f, S) \in Int /\ SumOf(g, S) = SumOf(f, S) + (IF v \in S THEN 1 ELSE 0)
    BY <2>2, <2>3, SumOneMore
  <2> QED
    BY <2>1, <2>4
<1>5. ASSUME NEW S \in SUBSET Uppers
      PROVE  /\ SumOf(bucket_counts, S) \in Int
             /\ SumOf(bucket_counts', S) = SumOf(bucket_counts, S) + (IF u \in S THEN 1 ELSE 0)
  <2>1. PICK f \in [Uppers -> Nat], g \in [Uppers -> Nat] : f = bucket_counts /\ g = bucket_counts'
    BY <1>3 DEF HistogramTyped
  <2>2. Summable(f, S) /\ Summable(g, S)
    BY <2>1, HistogramConstants DEF Summable
  <2>3. \A y \in S : g[y] = IF y = u THEN f[y] + 1 ELSE f[y]
    BY <1>1, <2>1
  <2>4. SumOf(f, S) \in Int /\ SumOf(g, S) = SumOf(f, S) + (IF u \in S THEN 1 ELSE 0)
    BY <2>2, <2>3, SumOneMore
  <2> QED
    BY <2>1, <2>4
<1> QED
  BY <1>1, <1>4, <1>5

\* It is in one bucket, and below the same boundaries as it.
LEMMA ObserveAdds ==
    ASSUME HistogramTyped, AllAdded, NEW t \in Observers, NEW v \in Values, Observe(t, v)
    PROVE  AllAdded'
<1>1. PICK u \in Uppers :
          /\ BucketFor(u, v) /\ bucket_counts' = [bucket_counts EXCEPT ![u] = @ + 1]
          /\ \A S \in SUBSET Uppers :
                 /\ SumOf(bucket_counts, S) \in Int
                 /\ SumOf(bucket_counts', S) = SumOf(bucket_counts, S) + (IF u \in S THEN 1 ELSE 0)
  BY ObserveSums
<1>2. /\ observations' = [observations EXCEPT ![v] = @ + 1]
      /\ observer[t] = Idle
      /\ observer' = [observer EXCEPT ![t] = [step |-> "count", value |-> v]]
      /\ UNCHANGED <<sample_count, sample_sum>>
  BY DEF Observe
<1>3. HistogramTyped'
  BY HistogramTypedNext DEF HistogramNext
<1>4. ASSUME NEW S \in SUBSET Values
      PROVE  /\ SumOf(observations, S) \in Int
             /\ SumOf(observations', S) = SumOf(observations, S) + (IF v \in S THEN 1 ELSE 0)
  BY ObserveSums
<1>5. ASSUME NEW S \in SUBSET Uppers
      PROVE  /\ SumOf(bucket_counts, S) \in Int
             /\ SumOf(bucket_counts', S) = SumOf(bucket_counts, S) + (IF u \in S THEN 1 ELSE 0)
  BY <1>1
<1>6. ASSUME NEW w \in Uppers
      PROVE  bucket_counts'[w] = SumOf(observations', InBucket(w))
  <2>1. InBucket(w) \in SUBSET Values /\ (v \in InBucket(w) <=> w = u)
    BY <1>1, BucketIs DEF InBucket
  <2>2. bucket_counts[w] = SumOf(observations, InBucket(w)) /\ bucket_counts[w] \in Nat
    BY DEF AllAdded, HistogramTyped
  <2>3. bucket_counts'[w] = bucket_counts[w] + (IF w = u THEN 1 ELSE 0)
    BY <1>1, <2>2 DEF HistogramTyped
  <2> QED
    BY <1>4, <2>1, <2>2, <2>3
<1>7. ASSUME NEW w \in Uppers
      PROVE  SumOf(bucket_counts', {x \in Uppers : x <= w}) = SumOf(observations', {x \in Values : x < w})
  <2>1. u \in {x \in Uppers : x <= w} <=> v \in {x \in Values : x < w}
    BY <1>1, BucketIs
  <2>2. SumOf(bucket_counts, {x \in Uppers : x <= w}) = SumOf(observations, {x \in Values : x < w})
    BY DEF AllAdded, Below
  <2>3. SumOf(bucket_counts', {x \in Uppers : x <= w}) =
            SumOf(bucket_counts, {x \in Uppers : x <= w})
                + (IF u \in {x \in Uppers : x <= w} THEN 1 ELSE 0)
    BY <1>5
  <2>4. SumOf(observations', {x \in Values : x < w}) =
            SumOf(observations, {x \in Values : x < w})
                + (IF v \in {x \in Values : x < w} THEN 1 ELSE 0)
    BY <1>4
  <2> QED
    BY <2>1, <2>2, <2>3, <2>4
<1>8. sample_count + Cardinality(Counting') = SumOf(observations', Values)
  <2>1. t \notin Counting /\ Counting' = Counting \cup {t}
    BY <1>2 DEF Counting, Idle, HistogramTyped
  <2>2. Cardinality(Counting') = Cardinality(Counting) + 1
    BY <2>1, SumsDefined, FS_AddElement
  <2>3. Cardinality(Counting) \in Nat /\ sample_count \in Nat
    BY SumsDefined DEF HistogramTyped
  <2>4. SumOf(observations', Values) = SumOf(observations, Values) + 1
    BY <1>4
  <2> QED
    BY <2>2, <2>3, <2>4 DEF AllAdded
<1>9. SumOf(InHand', Observers) = SumOf(InHand, Observers) + v
  <2>1. Summable(InHand, Observers) /\ Summable(InHand', Observers)
    BY <1>3, InHandSummable DEF InHand, HistogramTyped
  <2>2. InHand[t] = 0 /\ InHand'[t] = v /\ \A w \in Observers \ {t} : InHand[w] = InHand'[w]
    BY <1>2 DEF InHand, Idle, HistogramTyped
  <2>3. SumOf(InHand', Observers) = SumOf(InHand, Observers) + InHand'[t] - InHand[t]
    BY <2>1, <2>2, SumChanges
  <2>4. SumOf(InHand, Observers) \in Int /\ v \in Int
    BY SumsDefined, HistogramConstants
  <2> QED
    BY <2>2, <2>3, <2>4
<1>10. SumOf(Amounts', Values) = SumOf(Amounts, Values) + v
  <2>1. Summable(Amounts, Values) /\ Summable(Amounts', Values)
    BY <1>3, AmountsSummable DEF Amounts, HistogramTyped
  <2>2. PICK n \in Nat : n = observations[v] /\ observations'[v] = n + 1
    BY <1>2 DEF HistogramTyped
  <2>3. Amounts[v] = v * n /\ Amounts'[v] = v * (n + 1)
    BY <2>2 DEF Amounts
  <2>4. \A w \in Values \ {v} : Amounts[w] = Amounts'[w]
    BY <1>2 DEF Amounts, HistogramTyped
  <2>5. SumOf(Amounts', Values) = SumOf(Amounts, Values) + Amounts'[v] - Amounts[v]
    BY <2>1, <2>4, SumChanges
  <2>6. PICK m \in Int, k \in Int : m = v * n /\ k = v /\ v * (n + 1) = m + k
    BY HistogramConstants
  <2>7. SumOf(Amounts, Values) \in Int
    BY SumsDefined
  <2> QED
    BY <2>3, <2>5, <2>6, <2>7
<1>11. sample_sum + SumOf(InHand', Observers) = SumOf(Amounts', Values)
  <2>1. sample_sum \in Int /\ SumOf(InHand, Observers) \in Int /\ v \in Int
    BY SumsDefined, HistogramConstants DEF HistogramTyped
  <2>2. sample_sum + SumOf(InHand, Observers) = SumOf(Amounts, Values)
    BY DEF AllAdded
  <2> QED
    BY <1>9, <1>10, <2>1, <2>2
<1>12. \A w \in Uppers :
           (SumOf(bucket_counts, {x \in Uppers : x <= w}) = Below(observations, w))'
  BY <1>7 DEF Below
<1>13. \A w \in Uppers : (bucket_counts[w] = SumOf(observations, InBucket(w)))'
  BY <1>6 DEF InBucket, BucketFor
<1> QED
  BY <1>2, <1>8, <1>11, <1>12, <1>13 DEF AllAdded

\* The count, the sum and the reader leave the buckets alone.
LEMMA OthersAdd ==
    ASSUME HistogramTyped, AllAdded,
           \/ \E t \in Observers : Count(t) \/ Sum(t)
           \/ TakeSnapshot \/ ReadCount \/ ReadSum \/ ReadBucket
    PROVE  AllAdded'
<1>1. UNCHANGED <<bucket_counts, observations>>
  BY DEF Count, Sum, TakeSnapshot, ReadCount, ReadSum, ReadBucket, Read, counts
<1>2. /\ \A u \in Uppers : (bucket_counts[u] = SumOf(observations, InBucket(u)))'
      /\ \A u \in Uppers :
             (SumOf(bucket_counts, {x \in Uppers : x <= u}) = Below(observations, u))'
      /\ SumOf(observations, Values)' = SumOf(observations, Values)
      /\ SumOf(Amounts, Values)' = SumOf(Amounts, Values)
  BY <1>1 DEF AllAdded, Below, InBucket, BucketFor, Amounts
<1>3. ASSUME NEW t \in Observers, Count(t)
      PROVE  AllAdded'
  <2>1. t \in Counting /\ Counting' = Counting \ {t} /\ sample_count' = sample_count + 1
    BY <1>3 DEF Count, Advance, Counting, HistogramTyped, Calls
  <2>2. Cardinality(Counting') = Cardinality(Counting) - 1
    BY <2>1, SumsDefined, FS_RemoveElement
  <2>3. Cardinality(Counting) \in Nat /\ sample_count \in Nat
    BY SumsDefined DEF HistogramTyped
  <2>4. sample_count' + Cardinality(Counting') = SumOf(observations, Values)
    BY <2>1, <2>2, <2>3 DEF AllAdded
  <2>5. InHand' = InHand /\ sample_sum' = sample_sum
    BY <1>3 DEF Count, Advance, InHand, HistogramTyped, Calls
  <2> QED
    BY <1>2, <2>4, <2>5 DEF AllAdded
<1>4. ASSUME NEW t \in Observers, Sum(t)
      PROVE  AllAdded'
  <2>0. HistogramTyped'
    BY <1>4, HistogramTypedNext DEF HistogramNext
  <2>1. PICK v \in Int : v = observer[t].value
    <3>1. Values \cup {0} \subseteq Int
      BY HistogramConstants
    <3> QED
      BY <3>1 DEF HistogramTyped, Calls
  <2>2. InHand[t] = v /\ InHand'[t] = 0 /\ \A w \in Observers \ {t} : InHand[w] = InHand'[w]
    BY <1>4, <2>1 DEF Sum, InHand, Idle, HistogramTyped
  <2>3. Summable(InHand, Observers) /\ Summable(InHand', Observers)
    BY <2>0, InHandSummable DEF InHand, HistogramTyped
  <2>4. SumOf(InHand', Observers) = SumOf(InHand, Observers) + InHand'[t] - InHand[t]
    BY <2>2, <2>3, SumChanges
  <2>5. sample_sum \in Int /\ SumOf(InHand, Observers) \in Int /\ sample_sum' = sample_sum + v
    BY <1>4, <2>1, SumsDefined DEF Sum, HistogramTyped
  <2>6. sample_sum' + SumOf(InHand', Observers) = sample_sum + SumOf(InHand, Observers)
    BY <2>2, <2>4, <2>5
  <2>7. Counting' = Counting /\ sample_count' = sample_count
    BY <1>4 DEF Sum, Counting, Idle, HistogramTyped
  <2> QED
    BY <1>2, <2>6, <2>7 DEF AllAdded
<1>5. CASE TakeSnapshot \/ ReadCount \/ ReadSum \/ ReadBucket
  <2>1. UNCHANGED <<sample_count, sample_sum, observer>>
    BY <1>5 DEF TakeSnapshot, ReadCount, ReadSum, ReadBucket, Read, counts
  <2>2. Counting' = Counting /\ InHand' = InHand
    BY <2>1 DEF Counting, InHand
  <2> QED
    BY <1>2, <2>1, <2>2 DEF AllAdded
<1> QED
  BY <1>3, <1>4, <1>5

LEMMA ObserveGrows ==
    ASSUME HistogramTyped, SnapshotGrows, NEW t \in Observers, NEW v \in Values, Observe(t, v)
    PROVE  SnapshotGrows'
<1>1. /\ observations' = [observations EXCEPT ![v] = @ + 1]
      /\ UNCHANGED <<reader, result, earlier>>
  BY DEF Observe
<1>2. Taken' = Taken /\ Left' = Left /\ Taken \subseteq Uppers /\ Left \subseteq Uppers
  BY <1>1 DEF Taken, Left, HistogramTyped
<1>3. \A S \in SUBSET Values : SumOf(earlier', S) = SumOf(earlier, S) /\ SumOf(earlier, S) \in Int
  BY <1>1, SumsDefined
<1>4. \A S \in SUBSET Values :
          SumOf(observations, S) \in Int /\ SumOf(observations', S) \in Int
              /\ SumOf(observations, S) <= SumOf(observations', S)
  BY ObserveSums
<1>5. \A S \in SUBSET Uppers :
          SumOf(bucket_counts, S) \in Int /\ SumOf(bucket_counts', S) \in Int
              /\ SumOf(bucket_counts, S) <= SumOf(bucket_counts', S)
  BY ObserveSums
<1>6. \A w \in Values : earlier'[w] <= observations'[w]
  <2>1. ASSUME NEW w \in Values
        PROVE  earlier[w] \in Nat /\ observations[w] \in Nat /\ earlier[w] <= observations[w]
    BY DEF HistogramTyped, SnapshotGrows
  <2>2. ASSUME NEW w \in Values
        PROVE  observations'[w] = observations[w] \/ observations'[w] = observations[w] + 1
    BY <1>1 DEF HistogramTyped
  <2> QED
    BY <1>1, <2>1, <2>2
<1>7. result.cumulative \in Nat /\ result.count \in Nat /\ \A u \in Taken : result.buckets[u] \in Nat
  BY DEF HistogramTyped, Taken
<1>8. Covers(SumOf(earlier, BelowSome(Taken)), result.cumulative,
             SumOf(observations', BelowSome(Taken)))
  <2>1. BelowSome(Taken) \in SUBSET Values
    BY DEF BelowSome
  <2> QED
    BY <1>4, <1>7, <2>1 DEF SnapshotGrows, Covers
<1>9. \A u \in Taken : Covers(Below(earlier, u), result.buckets[u], Below(observations', u))
  <2>1. ASSUME NEW u \in Taken
        PROVE  Covers(Below(earlier, u), result.buckets[u], Below(observations', u))
    <3>1. {w \in Values : w < u} \in SUBSET Values
      OBVIOUS
    <3>2. Covers(Below(earlier, u), result.buckets[u], Below(observations, u))
      BY DEF SnapshotGrows
    <3> QED
      BY <1>4, <1>7, <3>1, <3>2 DEF Covers, Below
  <2> QED
    BY <2>1
<1>10. /\ Covers(SumOf(earlier, BelowSome(Taken)), result.cumulative,
                 SumOf(observations, BelowSome(Taken)))'
       /\ \A u \in Taken' : Covers(Below(earlier, u), result.buckets[u], Below(observations, u))'
  BY <1>1, <1>2, <1>8, <1>9 DEF BelowSome, Below
<1>11. reader \in {2, 3} \/ (reader = 0 /\ Left = {}) =>
           result.count <= result.cumulative + SumOf(bucket_counts', Left)
  <2>1. /\ SumOf(bucket_counts, Left) \in Int /\ SumOf(bucket_counts', Left) \in Int
        /\ SumOf(bucket_counts, Left) <= SumOf(bucket_counts', Left)
    BY <1>2, <1>5
  <2> QED
    BY <1>7, <2>1 DEF SnapshotGrows
<1> QED
  BY <1>1, <1>2, <1>6, <1>10, <1>11 DEF SnapshotGrows

\* What is below the next boundary is what is below those before, and what the
\* next bucket counts.
LEMMA NextBucket ==
    ASSUME HistogramTyped, SnapshotGrows, NEW u \in Left, \A x \in Left : u <= x
    PROVE  /\ BelowSome(Taken \cup {u}) = {v \in Values : v < u}
           /\ BelowSome(Taken \cup {u}) = BelowSome(Taken) \cup InBucket(u)
           /\ BelowSome(Taken) \cap InBucket(u) = {}
<1>1. /\ Taken \subseteq Uppers /\ Uppers \subseteq Int /\ Values \subseteq Int
      /\ Left = Uppers \ Taken
  BY HistogramConstants DEF HistogramTyped, Taken, Left
<1>2. \A x \in Taken : x < u
  BY DEF SnapshotGrows
<1>3. ASSUME NEW v \in Values
      PROVE  v \in BelowSome(Taken \cup {u}) <=> v < u
  BY <1>1, <1>2 DEF BelowSome
<1>4. ASSUME NEW v \in Values, v \in InBucket(u)
      PROVE  v < u /\ v \notin BelowSome(Taken)
  <2>1. v < u /\ \A x \in Uppers : v < x => u <= x
    BY <1>1, <1>4 DEF InBucket, BucketFor
  <2> QED
    BY <1>1, <1>2, <2>1 DEF BelowSome
<1>5. ASSUME NEW v \in Values, v < u, v \notin BelowSome(Taken)
      PROVE  v \in InBucket(u)
  <2>1. ASSUME NEW x \in Uppers, x > v
        PROVE  u <= x
    BY <1>1, <1>5, <2>1 DEF BelowSome
  <2> QED
    BY <1>1, <1>5, <2>1 DEF InBucket, BucketFor
<1>6. BelowSome(Taken) \subseteq BelowSome(Taken \cup {u})
  BY DEF BelowSome
<1>7. /\ BelowSome(Taken) \subseteq Values /\ InBucket(u) \subseteq Values
      /\ BelowSome(Taken \cup {u}) \subseteq Values
  BY DEF BelowSome, InBucket
<1> QED
  BY <1>3, <1>4, <1>5, <1>6, <1>7

LEMMA BucketGrows ==
    ASSUME HistogramTyped, AllAdded, SnapshotGrows, NEW u \in Left, ReadsBucket(u)
    PROVE  SnapshotGrows'
<1>1. /\ Taken \subseteq Uppers /\ Uppers \subseteq Int /\ Left = Uppers \ Taken
      /\ u \in Uppers /\ u \notin Taken
      /\ \A x \in Taken : x < u
      /\ \A x \in Left : u <= x
  BY HistogramConstants DEF HistogramTyped, Taken, Left, SnapshotGrows, ReadsBucket
<1>2. PICK c \in Nat, b \in Nat, k \in Nat :
          c = result.cumulative /\ b = bucket_counts[u] /\ k = result.count
  BY <1>1 DEF HistogramTyped
<1>3. /\ result'.cumulative = c + b /\ result'.count = k
      /\ Taken' = Taken \cup {u}
      /\ result'.buckets[u] = c + b
      /\ \A x \in Taken : result'.buckets[x] = result.buckets[x]
  BY <1>1, <1>2 DEF ReadsBucket, HistogramTyped, Taken
<1>4. Left' = Left \ {u}
  BY <1>1, <1>3 DEF Left
<1>5. reader = 3 /\ reader' \in {0, 3} /\ UNCHANGED <<bucket_counts, observations, earlier>>
  BY DEF ReadsBucket, Read, ReadOrder, counts, HistogramTyped
<1>6. PICK A : A = BelowSome(Taken)
  OBVIOUS
<1>7. PICK B : B = InBucket(u)
  OBVIOUS
<1>8. A \in SUBSET Values /\ B \in SUBSET Values /\ A \cap B = {}
  BY <1>1, <1>6, <1>7, NextBucket DEF BelowSome, InBucket
<1>9. BelowSome(Taken \cup {u}) = A \cup B /\ {v \in Values : v < u} = A \cup B
  BY <1>1, <1>6, <1>7, NextBucket
<1>10. /\ SumOf(earlier, A \cup B) = SumOf(earlier, A) + SumOf(earlier, B)
       /\ SumOf(observations, A \cup B) = SumOf(observations, A) + SumOf(observations, B)
  <2>1. /\ Summable(earlier, A) /\ Summable(earlier, B)
        /\ Summable(observations, A) /\ Summable(observations, B)
    BY <1>8, SumsDefined
  <2> QED
    BY <1>8, <2>1, SumUnion
<1>11. SumOf(earlier, B) <= SumOf(observations, B)
  <2>1. Summable(earlier, B) /\ Summable(observations, B)
    BY <1>8, SumsDefined
  <2>2. \A v \in B : earlier[v] <= observations[v]
    BY <1>8 DEF SnapshotGrows
  <2> QED
    BY <2>1, <2>2, SumGrows
<1>12. SumOf(observations, B) = b
  BY <1>1, <1>2, <1>7 DEF AllAdded
<1>13. SumOf(earlier, A) <= c /\ c <= SumOf(observations, A)
  BY <1>2, <1>6 DEF SnapshotGrows, Covers
<1>14. Covers(SumOf(earlier, A \cup B), c + b, SumOf(observations, A \cup B))
  <2>1. /\ SumOf(earlier, A) \in Int /\ SumOf(earlier, B) \in Int
        /\ SumOf(observations, A) \in Int
    BY <1>8, SumsDefined
  <2> QED
    BY <1>10, <1>11, <1>12, <1>13, <2>1 DEF Covers
<1>15. Covers(SumOf(earlier, BelowSome(Taken)), result.cumulative,
              SumOf(observations, BelowSome(Taken)))'
  <2>1. BelowSome(Taken)' = A \cup B
    BY <1>3, <1>9 DEF BelowSome
  <2> QED
    BY <1>3, <1>5, <1>14, <2>1
<1>16. \A w \in Taken' : Covers(Below(earlier, w), result.buckets[w], Below(observations, w))'
  <2>1. Covers(Below(earlier, u), c + b, Below(observations, u))
    BY <1>9, <1>14 DEF Below
  <2>2. \A w \in Taken : Covers(Below(earlier, w), result.buckets[w], Below(observations, w))
    BY DEF SnapshotGrows
  <2> QED
    BY <1>3, <1>5, <2>1, <2>2 DEF Below
<1>17. \A y \in Taken' : \A x \in Left' : y < x
  <2>1. \A y \in Taken : \A x \in Left : y < x
    BY DEF SnapshotGrows
  <2>2. \A x \in Left \ {u} : u < x
    BY <1>1
  <2> QED
    BY <1>3, <1>4, <2>1, <2>2
<1>18. Infinity \in Taken' => result'.buckets[Infinity] = result'.cumulative
  <2>1. u <= Infinity /\ Infinity \in Int
    BY <1>1, HistogramConstants
  <2>2. Infinity \notin Taken
    BY <1>1, <2>1
  <2> QED
    BY <1>3, <2>2
<1>19. k <= (c + b) + SumOf(bucket_counts, Left \ {u})
  <2>1. SumOf(bucket_counts, Left) = SumOf(bucket_counts, Left \ {u}) + b
    <3>1. Summable(bucket_counts, Left)
      BY <1>1, SumsDefined
    <3> QED
      BY <1>2, <3>1, SumWithout
  <2>2. SumOf(bucket_counts, Left \ {u}) \in Int
    BY <1>1, SumsDefined
  <2>3. k <= c + SumOf(bucket_counts, Left)
    BY <1>2, <1>5 DEF SnapshotGrows
  <2> QED
    BY <2>1, <2>2, <2>3
<1> QED
  BY <1>3, <1>4, <1>5, <1>15, <1>16, <1>17, <1>18, <1>19 DEF SnapshotGrows

\* The last boundary is above everything, so that the buckets have what was
\* counted, and more.
LEMMA CountIsInBuckets ==
    ASSUME HistogramTyped, AllAdded
    PROVE  sample_count <= SumOf(bucket_counts, Uppers)
<1>1. /\ {x \in Uppers : x <= Infinity} = Uppers /\ {v \in Values : v < Infinity} = Values
      /\ Infinity \in Uppers
  BY HistogramConstants
<1>2. SumOf(bucket_counts, Uppers) = SumOf(observations, Values)
  BY <1>1 DEF AllAdded, Below
<1>3. Cardinality(Counting) \in Nat /\ sample_count \in Nat
  BY SumsDefined DEF HistogramTyped
<1> QED
  BY <1>2, <1>3 DEF AllAdded

LEMMA OthersGrow ==
    ASSUME HistogramTyped, AllAdded, SnapshotGrows,
           \/ \E t \in Observers : Count(t) \/ Sum(t)
           \/ TakeSnapshot \/ ReadCount \/ ReadSum
    PROVE  SnapshotGrows'
<1>1. ASSUME UNCHANGED <<bucket_counts, observations, earlier>>,
             result'.cumulative = result.cumulative, result'.buckets = result.buckets,
             reader' = 1 => reader = 1,
             reader' \in {2, 3} \/ (reader' = 0 /\ Left = {}) =>
                 result'.count <= result.cumulative + SumOf(bucket_counts, Left)
      PROVE  SnapshotGrows'
  <2>1. Taken' = Taken /\ Left' = Left
    BY <1>1 DEF Taken, Left
  <2> QED
    BY <1>1, <2>1 DEF SnapshotGrows, Covers, Below, BelowSome
<1>2. CASE \E t \in Observers : Count(t) \/ Sum(t)
  <2>1. UNCHANGED <<bucket_counts, observations, earlier, reader, result>>
    BY <1>2 DEF Count, Sum
  <2> QED
    BY <1>1, <2>1 DEF SnapshotGrows
<1>3. CASE TakeSnapshot
  <2>1. Taken' = {} /\ reader' = 1 /\ result'.cumulative = 0 /\ earlier' = observations
        /\ UNCHANGED <<bucket_counts, observations>>
    BY <1>3 DEF TakeSnapshot, Taken, Empty, counts
  <2>2. BelowSome(Taken)' = {}
    BY <2>1 DEF BelowSome
  <2>3. SumOf(earlier', {}) = 0 /\ SumOf(observations', {}) = 0
    BY SumZero
  <2>4. \A v \in Values : observations[v] <= observations[v]
    BY DEF HistogramTyped
  <2> QED
    BY <2>1, <2>2, <2>3, <2>4 DEF SnapshotGrows, Covers
<1>4. CASE ReadCount
  <2>1. /\ reader = 1 /\ reader' = 2 /\ UNCHANGED <<bucket_counts, observations, earlier>>
        /\ result'.cumulative = result.cumulative /\ result'.buckets = result.buckets
        /\ result'.count = sample_count
    BY <1>4 DEF ReadCount, Read, ReadOrder, counts, HistogramTyped
  <2>2. result.cumulative = 0 /\ Left = Uppers
    BY <2>1 DEF SnapshotGrows, Left
  <2>3. SumOf(bucket_counts, Uppers) \in Int
    BY SumsDefined
  <2>4. result'.count <= result.cumulative + SumOf(bucket_counts, Left)
    BY <2>1, <2>2, <2>3, CountIsInBuckets
  <2> QED
    BY <1>1, <2>1, <2>4
<1>5. CASE ReadSum
  <2>1. /\ reader = 2 /\ reader' = 3 /\ UNCHANGED <<bucket_counts, observations, earlier>>
        /\ result'.cumulative = result.cumulative /\ result'.buckets = result.buckets
        /\ result'.count = result.count
    BY <1>5 DEF ReadSum, Read, ReadOrder, counts, HistogramTyped
  <2> QED
    BY <1>1, <2>1 DEF SnapshotGrows
<1> QED
  BY <1>2, <1>3, <1>4, <1>5

LEMMA HistogramKeeps == HistogramInv /\ [HistogramNext]_histogramVars => HistogramInv'
<1> SUFFICES ASSUME HistogramInv, [HistogramNext]_histogramVars PROVE HistogramInv'
  OBVIOUS
<1>1. CASE HistogramNext
  <2>1. HistogramTyped /\ AllAdded /\ SnapshotGrows
    BY DEF HistogramInv
  <2>2. HistogramTyped'
    BY <1>1, <2>1, HistogramTypedNext
  <2>3. ASSUME NEW t \in Observers, NEW v \in Values, Observe(t, v)
        PROVE  AllAdded' /\ SnapshotGrows'
    BY <2>1, <2>3, ObserveAdds, ObserveGrows
  <2>4. CASE ReadBucket
    <3>1. AllAdded'
      BY <2>1, <2>4, OthersAdd
    <3>2. PICK u \in Left : ReadsBucket(u)
      BY <2>1, <2>4, ReadBucketIs
    <3>3. SnapshotGrows'
      BY <2>1, <3>2, BucketGrows
    <3> QED
      BY <2>2, <3>1, <3>3 DEF HistogramInv
  <2>5. CASE \/ \E t \in Observers : Count(t) \/ Sum(t)
             \/ TakeSnapshot \/ ReadCount \/ ReadSum
    <3>1. AllAdded'
      BY <2>1, <2>5, OthersAdd
    <3>2. SnapshotGrows'
      BY <2>1, <2>5, OthersGrow
    <3> QED
      BY <2>2, <3>1, <3>2 DEF HistogramInv
  <2> QED
    BY <1>1, <2>2, <2>3, <2>4, <2>5 DEF HistogramNext, HistogramInv
<1>2. CASE UNCHANGED histogramVars
  <2>1. HistogramTyped'
    BY <1>2 DEF HistogramInv, HistogramTyped, histogramVars, counts
  <2>2. AllAdded'
    BY <1>2 DEF HistogramInv, AllAdded, InBucket, BucketFor, Below, Counting, InHand, Amounts,
                histogramVars, counts
  <2>3. Taken' = Taken /\ Left' = Left
    BY <1>2 DEF Taken, Left, histogramVars
  <2>4. SnapshotGrows'
    BY <1>2, <2>3 DEF HistogramInv, SnapshotGrows, Covers, Below, BelowSome, histogramVars, counts
  <2> QED
    BY <2>1, <2>2, <2>4 DEF HistogramInv
<1> QED
  BY <1>1, <1>2

\* No fewer values are up to a boundary than below it.
LEMMA UpToIsMore ==
    ASSUME HistogramTyped, NEW u \in Uppers
    PROVE  Below(observations, u) <= UpTo(observations, u)
<1> DEFINE low == {v \in Values : v < u}
           same == {v \in Values : v = u}
<1>1. low \in SUBSET Values /\ same \in SUBSET Values
  OBVIOUS
<1>2. low \cap same = {} /\ low \cup same = {v \in Values : v <= u}
  <2>1. u \in Int /\ \A v \in Values : v \in Int
    BY HistogramConstants
  <2>2. \A v \in Values : v <= u <=> v < u \/ v = u
    BY <2>1
  <2>3. \A v \in Values : ~(v < u /\ v = u)
    BY <2>1
  <2> QED
    BY <2>2, <2>3
<1>3. \A v \in same : observations[v] >= 0
  BY DEF HistogramTyped
<1>4. Below(observations, u) = SumOf(observations, low)
  BY DEF Below
<1>5. UpTo(observations, u) = SumOf(observations, low \cup same)
  BY <1>2 DEF UpTo
<1> HIDE DEF low, same
<1>6. \A S \in SUBSET Values : Summable(observations, S) /\ SumOf(observations, S) \in Int
  BY SumsDefined
<1>7. /\ Summable(observations, low) /\ SumOf(observations, low) \in Int
      /\ Summable(observations, same) /\ SumOf(observations, same) \in Int
  BY <1>1, <1>6
<1>8. SumOf(observations, low \cup same) = SumOf(observations, low) + SumOf(observations, same)
  BY <1>2, <1>7, SumUnion
<1>9. SumOf(observations, same) >= 0
  <2> DEFINE none == [v \in same |-> 0]
  <2>1. IsFiniteSet(same)
    BY <1>1, HistogramConstants
  <2>2. Summable(none, same)
    BY <2>1 DEF Summable
  <2>3. \A v \in same : none[v] = 0 /\ none[v] <= observations[v]
    BY <1>3
  <2> HIDE DEF none
  <2>4. SumOf(none, same) = 0
    BY <2>3, SumZero
  <2>5. SumOf(none, same) <= SumOf(observations, same)
    BY <1>7, <2>2, <2>3, SumGrows
  <2> QED
    BY <1>7, <2>4, <2>5
<1> QED
  BY <1>4, <1>5, <1>7, <1>8, <1>9

(* For any observers, values and boundaries: when nobody is in observe, up *)
(* to the bucket of a boundary there is all that was observed below it and *)
(* nothing from above it, and the count and the sum are those of all       *)
(* observations.                                                           *)
THEOREM BucketsAreRight == HistogramSpec => []BucketsAddUp
<1>1. HistogramInv => BucketsAddUp
  <2> SUFFICES ASSUME HistogramInv, \A t \in Observers : observer[t] = Idle
               PROVE  /\ \A u \in Uppers :
                             /\ Below(observations, u) <= CumulativeCount(u)
                             /\ CumulativeCount(u) <= UpTo(observations, u)
                      /\ sample_count = SumOf(observations, Values)
                      /\ sample_sum = SumOf(Amounts, Values)
    BY DEF BucketsAddUp, NobodyObserves, Amounts
  <2>1. Counting = {}
    BY DEF Counting, Idle
  <2>2. Cardinality(Counting) = 0
    BY <2>1, FS_EmptySet
  <2>3. \A t \in Observers : InHand[t] = 0
    BY DEF InHand, Idle
  <2>4. SumOf(InHand, Observers) = 0
    BY <2>3, SumZero
  <2>5. sample_count \in Nat /\ sample_sum \in Int
    BY DEF HistogramInv, HistogramTyped
  <2>6. ASSUME NEW u \in Uppers
        PROVE  /\ Below(observations, u) <= CumulativeCount(u)
               /\ CumulativeCount(u) <= UpTo(observations, u)
    <3>1. CumulativeCount(u) = Below(observations, u)
      BY DEF HistogramInv, AllAdded, CumulativeCount
    <3>2. Below(observations, u) \in Int
      BY SumsDefined DEF Below, HistogramInv
    <3> QED
      BY <3>1, <3>2, UpToIsMore DEF HistogramInv
  <2> QED
    BY <2>2, <2>4, <2>5, <2>6 DEF HistogramInv, AllAdded
<1> QED
  BY <1>1, HistogramStarts, HistogramKeeps, PTL DEF HistogramSpec

(* A snapshot taken while any number of threads observe lies, for each     *)
(* boundary, between what was observed below it before and up to it since, *)
(* and its last bucket is not below its count.                             *)
THEOREM SnapshotsCover == HistogramSpec => []SnapshotCovers
<1>1. HistogramInv => SnapshotCovers
  <2> SUFFICES ASSUME HistogramInv, reader = 0, Taken = Uppers
               PROVE  /\ \A u \in Uppers :
                             /\ Below(earlier, u) <= result.buckets[u]
                             /\ result.buckets[u] <= UpTo(observations, u)
                      /\ result.count <= result.buckets[Infinity]
    BY DEF SnapshotCovers, Taken
  <2>1. Left = {} /\ Infinity \in Taken
    BY HistogramConstants DEF Left
  <2>2. SumOf(bucket_counts, Left) = 0
    BY <2>1, SumZero
  <2>3. result.cumulative \in Nat /\ result.count \in Nat
    BY DEF HistogramInv, HistogramTyped
  <2>4. result.count <= result.cumulative + SumOf(bucket_counts, Left)
    BY <2>1 DEF HistogramInv, SnapshotGrows
  <2>5. result.buckets[Infinity] = result.cumulative
    BY <2>1 DEF HistogramInv, SnapshotGrows
  <2>6. ASSUME NEW u \in Uppers
        PROVE  Below(earlier, u) <= result.buckets[u] /\ result.buckets[u] <= UpTo(observations, u)
    <3>1. Below(earlier, u) <= result.buckets[u] /\ result.buckets[u] <= Below(observations, u)
      BY DEF HistogramInv, SnapshotGrows, Covers
    <3>2. Below(observations, u) \in Int /\ Below(observations, u) <= UpTo(observations, u)
      BY SumsDefined, UpToIsMore DEF Below, HistogramInv
    <3>3. result.buckets[u] \in Nat
      BY DEF HistogramInv, HistogramTyped, Taken
    <3>4. UpTo(observations, u) \in Int
      BY SumsDefined DEF UpTo, HistogramInv
    <3> QED
      BY <3>1, <3>2, <3>3, <3>4
  <2> QED
    BY <2>2, <2>3, <2>4, <2>5, <2>6
<1> QED
  BY <1>1, HistogramStarts, HistogramKeeps, PTL DEF HistogramSpec

=============================================================================
