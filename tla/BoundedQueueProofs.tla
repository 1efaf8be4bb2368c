------------------------- MODULE BoundedQueueProofs -------------------------
(***************************************************************************)
(* BoundedQueue for any number of threads, any values, any policies and    *)
(* any capacity: it is well typed, loses no wakeup, and is atomic and      *)
(* first-in first-out in the sense of FifoQueue.                           *)
(***************************************************************************)
EXTENDS BoundedQueue, SequenceTheorems, FiniteSetTheorems, TLAPS

LEMMA MaxSizePositive == MaxSize \in Nat /\ MaxSize >= 1
  BY QueueAssumption DEF MaxSize, MaxSizeOf

\* What the op of a call tells of its arguments.
LEMMA CallFacts ==
    ASSUME TypeOK, NEW t \in Threads
    PROVE  /\ call[t] \in Calls
           /\ call[t].op = "try_push" =>
                  /\ call[t].value \in Values
                  /\ call[t].policy \in OverflowPolicies
                  /\ call[t] = PushCall(call[t].value, call[t].policy)
  BY DEF TypeOK, Calls, PushCall, PopCall, CloseCall, NoCall

LEMMA ResultFacts ==
    /\ NoResult \in Results
    /\ \A d \in {0, 1}, b \in BOOLEAN : Returned(b, d, NoValue) \in Results
    /\ \A v \in Values : Returned(TRUE, 0, v) \in Results
  BY DEF NoResult, Returned, Results

\* The sequences the critical sections leave behind.
LEMMA QueueFacts ==
    ASSUME TypeOK, NEW v \in Values
    PROVE  /\ Append(items, v) \in Seq(Values) /\ Len(Append(items, v)) = Len(items) + 1
           /\ items # <<>> =>
                  /\ Len(items) >= 1
                  /\ Head(items) \in Values
                  /\ Tail(items) \in Seq(Values) /\ Len(Tail(items)) = Len(items) - 1
                  /\ Append(Tail(items), v) \in Seq(Values)
                  /\ Len(Append(Tail(items), v)) = Len(items)
  <1>1. items \in Seq(Values)
    BY DEF TypeOK
  <1>2. QED
    BY <1>1

-----------------------------------------------------------------------------
(* Types.                                                                  *)

LEMMA InitTyped == Init => TypeOK
  <1> SUFFICES ASSUME Init PROVE TypeOK
    OBVIOUS
  <1>1. items \in Seq(Values) /\ Len(items) <= MaxSize
    BY EmptySeq, MaxSizePositive DEF Init
  <1>2. call \in [Threads -> Calls] /\ ret \in [Threads -> Results]
    BY ResultFacts DEF Init, Calls
  <1>3. QED
    BY <1>1, <1>2 DEF Init, TypeOK

LEMMA BeginTyped ==
    ASSUME TypeOK, NEW t \in Threads, NEW c \in Calls, Begin(t, c)
    PROVE  TypeOK'
  BY ResultFacts DEF TypeOK, Begin, conds

\* A call that returns leaves call and ret well typed.
LEMMA ReturnTyped ==
    ASSUME TypeOK, NEW t \in Threads, NEW r \in Results, Return(t, r)
    PROVE  call' \in [Threads -> Calls] /\ ret' \in [Threads -> Results]
  BY DEF TypeOK, Return, Calls

LEMMA NotifyTyped ==
    /\ TypeOK /\ NotifyNotEmpty =>
           not_empty' \subseteq Threads /\ popWoken' \subseteq Threads \ not_empty'
    /\ TypeOK /\ NotifyNotFull =>
           not_full' \subseteq Threads /\ pushWoken' \subseteq Threads \ not_full'
  BY DEF TypeOK, NotifyNotEmpty, NotifyNotFull

LEMMA TryPushTyped ==
    ASSUME TypeOK, NEW t \in Threads, TryPush(t)
    PROVE  TypeOK'
  <1>v. call[t].value \in Values
    BY CallFacts DEF TryPush, PushRefused, PushDropsNewest, PushDropsOldest, PushAppends, PushWaits, Pushing
  <1>1. CASE PushRefused(t)
    <2>1. call' \in [Threads -> Calls] /\ ret' \in [Threads -> Results]
      BY <1>1, ReturnTyped, ResultFacts DEF PushRefused
    <2>2. QED
      BY <1>1, <2>1 DEF PushRefused, TypeOK
  <1>2. CASE PushDropsNewest(t)
    <2>1. call' \in [Threads -> Calls] /\ ret' \in [Threads -> Results]
      BY <1>2, ReturnTyped, ResultFacts DEF PushDropsNewest
    <2>2. QED
      BY <1>2, <2>1 DEF PushDropsNewest, TypeOK, conds
  <1>3. CASE PushDropsOldest(t)
    <2>1. call' \in [Threads -> Calls] /\ ret' \in [Threads -> Results]
      BY <1>3, ReturnTyped, ResultFacts DEF PushDropsOldest, EmplaceBack
    <2>2. items # <<>> /\ items' = Append(Tail(items), call[t].value)
      BY <1>3, MaxSizePositive DEF PushDropsOldest, EmplaceBack, Full
    <2>3. items' \in Seq(Values) /\ Len(items') <= MaxSize
      BY <1>v, <2>2, QueueFacts DEF TypeOK
    <2>4. QED
      BY <1>3, <2>1, <2>3, NotifyTyped DEF PushDropsOldest, EmplaceBack, TypeOK
  <1>4. CASE PushAppends(t)
    <2>1. call' \in [Threads -> Calls] /\ ret' \in [Threads -> Results]
      BY <1>4, ReturnTyped, ResultFacts DEF PushAppends, EmplaceBack
    <2>2. items' = Append(items, call[t].value) /\ ~(Len(items) >= MaxSize)
      BY <1>4 DEF PushAppends, EmplaceBack, Full
    <2>3. items' \in Seq(Values) /\ Len(items') <= MaxSize
      BY <1>v, <2>2, QueueFacts, MaxSizePositive DEF TypeOK
    <2>4. QED
      BY <1>4, <2>1, <2>3, NotifyTyped DEF PushAppends, EmplaceBack, TypeOK
  <1>5. CASE PushWaits(t)
    BY <1>5 DEF PushWaits, TypeOK
  <1>6. QED
    BY <1>1, <1>2, <1>3, <1>4, <1>5 DEF TryPush

LEMMA PopTyped ==
    ASSUME TypeOK, NEW t \in Threads, Pop(t) \/ Expire(t) \/ SpuriousWake(t)
    PROVE  TypeOK'
  <1>1. CASE PopTakes(t)
    <2>1. items # <<>> /\ items' = Tail(items)
      BY <1>1 DEF PopTakes
    <2>2. Head(items) \in Values /\ items' \in Seq(Values) /\ Len(items') <= MaxSize
      BY <2>1, MaxSizePositive DEF TypeOK
    <2>3. call' \in [Threads -> Calls] /\ ret' \in [Threads -> Results]
      BY <1>1, <2>2, ReturnTyped, ResultFacts DEF PopTakes
    <2>4. QED
      BY <1>1, <2>2, <2>3, NotifyTyped DEF PopTakes, TypeOK
  <1>2. CASE PopGivesUp(t)
    <2>1. call' \in [Threads -> Calls] /\ ret' \in [Threads -> Results]
      BY <1>2, ReturnTyped, ResultFacts DEF PopGivesUp
    <2>2. QED
      BY <1>2, <2>1 DEF PopGivesUp, TypeOK
  <1>3. CASE PopWaits(t)
    BY <1>3 DEF PopWaits, TypeOK
  <1>4. CASE Expire(t)
    <2>1. PopCall("pop_for_expired") \in Calls
      BY DEF Calls
    <2>2. QED
      BY <1>4, <2>1 DEF Expire, TypeOK
  <1>5. CASE SpuriousWake(t)
    BY <1>5 DEF SpuriousWake, TypeOK
  <1>6. QED
    BY <1>1, <1>2, <1>3, <1>4, <1>5 DEF Pop

LEMMA CloseTyped ==
    ASSUME TypeOK, NEW t \in Threads, Close(t)
    PROVE  TypeOK'
  <1>1. CloseCall("notify_not_empty") \in Calls /\ CloseCall("notify_not_full") \in Calls
    BY DEF Calls
  <1>2. CASE CloseSets(t)
    BY <1>1, <1>2 DEF CloseSets, TypeOK, conds
  <1>3. CASE CloseNotifiesNotEmpty(t)
    BY <1>1, <1>3 DEF CloseNotifiesNotEmpty, TypeOK
  <1>4. CASE CloseNotifiesNotFull(t)
    <2>1. call' \in [Threads -> Calls] /\ ret' \in [Threads -> Results]
      BY <1>4, ReturnTyped, ResultFacts DEF CloseNotifiesNotFull
    <2>2. QED
      BY <1>4, <2>1 DEF CloseNotifiesNotFull, TypeOK
  <1>5. QED
    BY <1>2, <1>3, <1>4 DEF Close

LEMMA NextTyped == TypeOK /\ [Next]_vars => TypeOK'
  <1> SUFFICES ASSUME TypeOK, [Next]_vars PROVE TypeOK'
    OBVIOUS
  <1>1. ASSUME NEW t \in Pushers, NEW v \in Values, NEW p \in OverflowPolicies, Begin(t, PushCall(v, p))
        PROVE  TypeOK'
    <2>1. t \in Threads /\ PushCall(v, p) \in Calls
      BY DEF Threads, Calls
    <2>2. QED
      BY <1>1, <2>1, BeginTyped
  <1>2. ASSUME NEW t \in Poppers, NEW op \in {"pop", "pop_for"}, Begin(t, PopCall(op))
        PROVE  TypeOK'
    <2>1. t \in Threads /\ PopCall(op) \in Calls
      BY DEF Threads, Calls
    <2>2. QED
      BY <1>2, <2>1, BeginTyped
  <1>3. ASSUME NEW t \in Closers, Begin(t, CloseCall("close"))
        PROVE  TypeOK'
    <2>1. t \in Threads /\ CloseCall("close") \in Calls
      BY DEF Threads, Calls
    <2>2. QED
      BY <1>3, <2>1, BeginTyped
  <1>4. CASE \E t \in Threads : Step(t) \/ Expire(t) \/ SpuriousWake(t)
    BY <1>4, TryPushTyped, PopTyped, CloseTyped DEF Step
  <1>5. CASE UNCHANGED vars
    BY <1>5 DEF vars, TypeOK
  <1>6. QED
    BY <1>1, <1>2, <1>3, <1>4, <1>5 DEF Next

(* The queue never holds more than max_size items and every thread is in a *)
(* state the code knows, for all threads, values, policies and capacities. *)
THEOREM QueueTyped == SafeSpec => []TypeOK
  BY InitTyped, NextTyped, PTL DEF SafeSpec

-----------------------------------------------------------------------------
(* Wakeups are counted: a notification adds a woken thread unless it leaves *)
(* nobody asleep, and a thread that takes or fills a place subtracts one.   *)

LEMMA WokenFinite ==
    TypeOK => /\ IsFiniteSet(popWoken) /\ Cardinality(popWoken) \in Nat
              /\ IsFiniteSet(pushWoken) /\ Cardinality(pushWoken) \in Nat
  <1> SUFFICES ASSUME TypeOK PROVE /\ IsFiniteSet(popWoken) /\ Cardinality(popWoken) \in Nat
                                   /\ IsFiniteSet(pushWoken) /\ Cardinality(pushWoken) \in Nat
    OBVIOUS
  <1>1. IsFiniteSet(Threads) /\ popWoken \subseteq Threads /\ pushWoken \subseteq Threads
    BY QueueAssumption DEF TypeOK
  <1>2. QED
    BY <1>1, FS_Subset, FS_CardinalityType

LEMMA LeavingCounts ==
    ASSUME NEW S, IsFiniteSet(S), NEW t
    PROVE  /\ Cardinality(S) \in Nat
           /\ Cardinality(S \ {t}) \in Nat /\ Cardinality(S \ {t}) >= Cardinality(S) - 1
           /\ Cardinality(S \cup {t}) \in Nat /\ Cardinality(S \cup {t}) >= Cardinality(S)
           /\ t \notin S => Cardinality(S \cup {t}) = Cardinality(S) + 1
  BY FS_CardinalityType, FS_RemoveElement, FS_AddElement

LEMMA NotifyNotEmptyCounts ==
    ASSUME TypeOK, NotifyNotEmpty
    PROVE  /\ Cardinality(popWoken') \in Nat /\ Cardinality(popWoken') >= Cardinality(popWoken)
           /\ not_empty' # {} =>
                  not_empty # {} /\ Cardinality(popWoken') = Cardinality(popWoken) + 1
  <1>1. IsFiniteSet(popWoken) /\ Cardinality(popWoken) \in Nat
    BY WokenFinite
  <1>2. CASE not_empty = {} /\ UNCHANGED <<not_empty, popWoken>>
    BY <1>1, <1>2
  <1>3. CASE \E w \in not_empty : not_empty' = not_empty \ {w} /\ popWoken' = popWoken \cup {w}
    <2>1. PICK w \in not_empty : not_empty' = not_empty \ {w} /\ popWoken' = popWoken \cup {w}
      BY <1>3
    <2>2. w \notin popWoken
      BY DEF TypeOK
    <2>3. QED
      BY <1>1, <2>1, <2>2, LeavingCounts
  <1>4. QED
    BY <1>2, <1>3 DEF NotifyNotEmpty

LEMMA NotifyNotFullCounts ==
    ASSUME TypeOK, NotifyNotFull
    PROVE  /\ Cardinality(pushWoken') \in Nat /\ Cardinality(pushWoken') >= Cardinality(pushWoken)
           /\ not_full' # {} =>
                  not_full # {} /\ Cardinality(pushWoken') = Cardinality(pushWoken) + 1
  <1>1. IsFiniteSet(pushWoken) /\ Cardinality(pushWoken) \in Nat
    BY WokenFinite
  <1>2. CASE not_full = {} /\ UNCHANGED <<not_full, pushWoken>>
    BY <1>1, <1>2
  <1>3. CASE \E w \in not_full : not_full' = not_full \ {w} /\ pushWoken' = pushWoken \cup {w}
    <2>1. PICK w \in not_full : not_full' = not_full \ {w} /\ pushWoken' = pushWoken \cup {w}
      BY <1>3
    <2>2. w \notin pushWoken
      BY DEF TypeOK
    <2>3. QED
      BY <1>1, <2>1, <2>2, LeavingCounts
  <1>4. QED
    BY <1>2, <1>3 DEF NotifyNotFull

WakeInv == TypeOK /\ NoLostItem /\ NoLostPlace

LEMMA TryPushKeepsWakeups ==
    ASSUME WakeInv, NEW t \in Threads, TryPush(t)
    PROVE  NoLostItem' /\ NoLostPlace'
  <1> USE DEF WakeInv
  <1>f. /\ IsFiniteSet(popWoken) /\ Cardinality(popWoken) \in Nat
        /\ IsFiniteSet(pushWoken) /\ Cardinality(pushWoken) \in Nat
        /\ Len(items) \in Nat /\ Len(items) <= MaxSize
    BY WokenFinite DEF TypeOK
  <1>l. /\ Cardinality(pushWoken \ {t}) \in Nat
        /\ Cardinality(pushWoken \ {t}) >= Cardinality(pushWoken) - 1
    BY <1>f, LeavingCounts
  <1>v. call[t].value \in Values
    BY CallFacts DEF TryPush, PushRefused, PushDropsNewest, PushDropsOldest, PushAppends, PushWaits, Pushing
  <1>1. CASE PushRefused(t)
    BY <1>1 DEF PushRefused, NoLostItem, NoLostPlace
  <1>2. CASE PushDropsNewest(t)
    BY <1>2 DEF PushDropsNewest, conds, NoLostItem, NoLostPlace
  <1>3. CASE PushDropsOldest(t)
    <2>1. /\ Len(items') = Len(items) /\ Len(items) >= MaxSize
          /\ NotifyNotEmpty /\ pushWoken' = pushWoken \ {t} /\ UNCHANGED <<closed, not_full>>
      BY <1>3, <1>v, MaxSizePositive, QueueFacts DEF PushDropsOldest, EmplaceBack, Full
    <2>2. NoLostItem'
      BY <1>f, <2>1, NotifyNotEmptyCounts DEF NoLostItem
    <2>3. NoLostPlace'
      BY <1>f, <1>l, <2>1, MaxSizePositive DEF NoLostPlace
    <2>4. QED
      BY <2>2, <2>3
  <1>4. CASE PushAppends(t)
    <2>1. /\ Len(items') = Len(items) + 1
          /\ NotifyNotEmpty /\ pushWoken' = pushWoken \ {t} /\ UNCHANGED <<closed, not_full>>
      BY <1>4, <1>v, QueueFacts DEF PushAppends, EmplaceBack
    <2>2. NoLostItem'
      BY <1>f, <2>1, NotifyNotEmptyCounts DEF NoLostItem
    <2>3. NoLostPlace'
      BY <1>f, <1>l, <2>1, MaxSizePositive DEF NoLostPlace
    <2>4. QED
      BY <2>2, <2>3
  <1>5. CASE PushWaits(t)
    BY <1>5, <1>f, <1>l, MaxSizePositive DEF PushWaits, Full, NoLostItem, NoLostPlace
  <1>6. QED
    BY <1>1, <1>2, <1>3, <1>4, <1>5 DEF TryPush

LEMMA PopKeepsWakeups ==
    ASSUME WakeInv, NEW t \in Threads, Pop(t) \/ Expire(t) \/ SpuriousWake(t)
    PROVE  NoLostItem' /\ NoLostPlace'
  <1> USE DEF WakeInv
  <1>f. /\ IsFiniteSet(popWoken) /\ Cardinality(popWoken) \in Nat
        /\ IsFiniteSet(pushWoken) /\ Cardinality(pushWoken) \in Nat
        /\ Len(items) \in Nat /\ Len(items) <= MaxSize
    BY WokenFinite DEF TypeOK
  <1>l. /\ Cardinality(popWoken \ {t}) \in Nat
        /\ Cardinality(popWoken \ {t}) >= Cardinality(popWoken) - 1
    BY <1>f, LeavingCounts
  <1>1. CASE PopTakes(t)
    <2>1. /\ Len(items') = Len(items) - 1
          /\ NotifyNotFull /\ popWoken' = popWoken \ {t} /\ UNCHANGED <<closed, not_empty>>
      BY <1>1 DEF PopTakes, TypeOK
    <2>2. NoLostItem'
      BY <1>f, <1>l, <2>1 DEF NoLostItem
    <2>3. NoLostPlace'
      BY <1>f, <2>1, NotifyNotFullCounts, MaxSizePositive DEF NoLostPlace
    <2>4. QED
      BY <2>2, <2>3
  <1>2. CASE PopGivesUp(t)
    <2>1. Len(items') = 0
      BY <1>2, EmptySeq DEF PopGivesUp
    <2>2. QED
      BY <1>2, <1>l, <2>1 DEF PopGivesUp, NoLostItem, NoLostPlace
  <1>3. CASE PopWaits(t)
    <2>1. Len(items') = 0
      BY <1>3, EmptySeq DEF PopWaits
    <2>2. QED
      BY <1>3, <1>l, <2>1 DEF PopWaits, NoLostItem, NoLostPlace
  <1>4. CASE Expire(t)
    <2>1. Cardinality(popWoken') \in Nat /\ Cardinality(popWoken') >= Cardinality(popWoken)
      BY <1>4, <1>f, LeavingCounts DEF Expire
    <2>2. QED
      BY <1>4, <1>f, <2>1 DEF Expire, NoLostItem, NoLostPlace
  <1>5. CASE SpuriousWake(t)
    <2>1. Cardinality(popWoken') \in Nat /\ Cardinality(popWoken') >= Cardinality(popWoken)
      <3>1. CASE popWoken' = popWoken
        BY <1>f, <3>1
      <3>2. /\ Cardinality(popWoken \cup {t}) \in Nat
            /\ Cardinality(popWoken \cup {t}) >= Cardinality(popWoken)
        BY <1>f, LeavingCounts
      <3>3. CASE popWoken' = popWoken \cup {t}
        BY <3>2, <3>3
      <3>4. QED
        BY <1>5, <3>1, <3>3 DEF SpuriousWake
    <2>2. Cardinality(pushWoken') \in Nat /\ Cardinality(pushWoken') >= Cardinality(pushWoken)
      <3>1. CASE pushWoken' = pushWoken
        BY <1>f, <3>1
      <3>2. /\ Cardinality(pushWoken \cup {t}) \in Nat
            /\ Cardinality(pushWoken \cup {t}) >= Cardinality(pushWoken)
        BY <1>f, LeavingCounts
      <3>3. CASE pushWoken' = pushWoken \cup {t}
        BY <3>2, <3>3
      <3>4. QED
        BY <1>5, <3>1, <3>3 DEF SpuriousWake
    <2>3. QED
      BY <1>5, <1>f, <2>1, <2>2, MaxSizePositive DEF SpuriousWake, NoLostItem, NoLostPlace
  <1>6. QED
    BY <1>1, <1>2, <1>3, <1>4, <1>5 DEF Pop

LEMMA NextKeepsWakeups == WakeInv /\ [Next]_vars => WakeInv'
  <1> SUFFICES ASSUME WakeInv, [Next]_vars PROVE NoLostItem' /\ NoLostPlace'
    BY NextTyped DEF WakeInv
  <1>1. CASE \E t \in Threads : Step(t) \/ Expire(t) \/ SpuriousWake(t)
    <2>1. PICK t \in Threads : Step(t) \/ Expire(t) \/ SpuriousWake(t)
      BY <1>1
    <2>2. CASE Close(t)
      BY <2>2 DEF Close, CloseSets, CloseNotifiesNotEmpty, CloseNotifiesNotFull, conds, WakeInv,
                  NoLostItem, NoLostPlace
    <2>3. QED
      BY <2>1, <2>2, TryPushKeepsWakeups, PopKeepsWakeups DEF Step
  <1>2. CASE UNCHANGED <<items, closed, conds>>
    BY <1>2 DEF conds, WakeInv, NoLostItem, NoLostPlace
  <1>3. QED
    BY <1>1, <1>2 DEF Next, Begin, vars, conds

(* However notifications, timeouts, spurious wakeups and calls interleave, *)
(* an open queue with items and blocked poppers has a popper on its way to *)
(* every one of them.                                                      *)
THEOREM NoItemIsLost == SafeSpec => []NoLostItem
  <1>1. Init => WakeInv
    BY InitTyped DEF Init, WakeInv, NoLostItem, NoLostPlace
  <1>2. WakeInv => NoLostItem
    BY DEF WakeInv
  <1>3. QED
    BY <1>1, <1>2, NextKeepsWakeups, PTL DEF SafeSpec

(* And one with free places and blocked pushers has a pusher on its way to *)
(* every one of them.                                                      *)
THEOREM NoPlaceIsLost == SafeSpec => []NoLostPlace
  <1>1. Init => WakeInv
    BY InitTyped DEF Init, WakeInv, NoLostItem, NoLostPlace
  <1>2. WakeInv => NoLostPlace
    BY DEF WakeInv
  <1>3. QED
    BY <1>1, <1>2, NextKeepsWakeups, PTL DEF SafeSpec

(* Producers and consumers of an open queue never wait for each other: the *)
(* queue is short of items or short of places, not of both.                *)
THEOREM NoDeadlock == SafeSpec => []NoMutualWait
  <1>1. Init => WakeInv
    BY InitTyped DEF Init, WakeInv, NoLostItem, NoLostPlace
  <1>2. WakeInv => NoMutualWait
    <2> SUFFICES ASSUME WakeInv, ~closed, not_empty # {}, not_full # {},
                        popWoken = {}, pushWoken = {}
                 PROVE  FALSE
      BY DEF NoMutualWait
    <2>1. Len(items) <= 0 /\ MaxSize - Len(items) <= 0 /\ Len(items) \in Nat
      BY FS_EmptySet DEF WakeInv, NoLostItem, NoLostPlace, TypeOK
    <2>2. QED
      BY <2>1, MaxSizePositive
  <1>3. QED
    BY <1>1, <1>2, NextKeepsWakeups, PTL DEF SafeSpec

-----------------------------------------------------------------------------
(* close.                                                                  *)

LEMMA SleepersKept ==
    ASSUME TypeOK, NoSleeperAfterClose, [Next]_vars
    PROVE  NoSleeperAfterClose'
  <1>0. call \in [Threads -> Calls]
    BY DEF TypeOK
  \* A step of t that is no close neither adds sleepers to a closed queue nor
  \* ends the close of another thread.
  <1>a. ASSUME NEW t \in Threads, UNCHANGED closed,
               closed => not_empty' \subseteq not_empty /\ not_full' \subseteq not_full,
               call[t].op \notin {"notify_not_empty", "notify_not_full"},
               \A u \in Threads \ {t} : call'[u] = call[u]
        PROVE  NoSleeperAfterClose'
    BY <1>a DEF NoSleeperAfterClose
  <1>1. ASSUME NEW t \in Threads, NEW c, Begin(t, c)
        PROVE  NoSleeperAfterClose'
    BY <1>0, <1>1, <1>a DEF Begin, conds, NoCall
  <1>2. ASSUME NEW t \in Threads, TryPush(t)
        PROVE  NoSleeperAfterClose'
    <2>1. CASE PushRefused(t) \/ PushDropsNewest(t) \/ PushWaits(t)
      BY <1>0, <1>a, <2>1 DEF PushRefused, PushDropsNewest, PushWaits, Pushing, Return, conds
    <2>2. CASE PushDropsOldest(t) \/ PushAppends(t)
      BY <1>0, <1>a, <2>2 DEF PushDropsOldest, PushAppends, EmplaceBack, Pushing, Return, NotifyNotEmpty
    <2>3. QED
      BY <1>2, <2>1, <2>2 DEF TryPush
  <1>3. ASSUME NEW t \in Threads, Pop(t) \/ Expire(t)
        PROVE  NoSleeperAfterClose'
    <2>1. CASE PopTakes(t)
      BY <1>0, <1>a, <2>1 DEF PopTakes, Popping, Return, NotifyNotFull
    <2>2. CASE PopGivesUp(t) \/ PopWaits(t) \/ Expire(t)
      BY <1>0, <1>a, <2>2 DEF PopGivesUp, PopWaits, Expire, Popping, Return
    <2>3. QED
      BY <1>3, <2>1, <2>2 DEF Pop
  <1>4. ASSUME NEW t \in Threads, SpuriousWake(t)
        PROVE  NoSleeperAfterClose'
    BY <1>4 DEF SpuriousWake, NoSleeperAfterClose
  <1>5. ASSUME NEW t \in Threads, Close(t)
        PROVE  NoSleeperAfterClose'
    <2>1. CASE CloseSets(t)
      <3>1. call'[t].op = "notify_not_empty"
        BY <1>0, <2>1 DEF CloseSets, CloseCall
      <3>2. QED
        BY <3>1 DEF NoSleeperAfterClose
    <2>2. CASE CloseNotifiesNotEmpty(t)
      <3>1. not_empty' = {} /\ call'[t].op = "notify_not_full"
        BY <1>0, <2>2 DEF CloseNotifiesNotEmpty, CloseCall
      <3>2. QED
        BY <3>1 DEF NoSleeperAfterClose
    <2>3. CASE CloseNotifiesNotFull(t)
      <3>1. /\ not_full' = {} /\ UNCHANGED <<closed, not_empty>>
            /\ call[t].op = "notify_not_full"
            /\ \A u \in Threads \ {t} : call'[u] = call[u]
        BY <1>0, <2>3 DEF CloseNotifiesNotFull, Return
      <3>2. QED
        BY <3>1 DEF NoSleeperAfterClose
    <2>4. QED
      BY <1>5, <2>1, <2>2, <2>3 DEF Close
  <1>6. CASE UNCHANGED vars
    BY <1>6 DEF vars, conds, NoSleeperAfterClose
  <1>7. QED
    BY <1>1, <1>2, <1>3, <1>4, <1>5, <1>6 DEF Next, Step, Threads

(* Whoever sleeps on a closed queue is about to be woken by a close that   *)
(* has not finished notifying: no call goes to sleep after its flag.       *)
THEOREM CloseWakesEverybody == SafeSpec => []NoSleeperAfterClose
  <1>1. Init => NoSleeperAfterClose
    BY DEF Init, NoSleeperAfterClose
  <1>2. QED
    BY <1>1, InitTyped, NextTyped, SleepersKept, PTL DEF SafeSpec

-----------------------------------------------------------------------------
(* Refinement of FifoQueue.                                                *)

\* The two specifications share the vocabulary of QueueInterface.
LEMMA SameInterface ==
    /\ Abs!NoCall = NoCall /\ Abs!NoResult = NoResult
    /\ Abs!Threads = Threads /\ Abs!MaxSize = MaxSize
    /\ \A ok, d, v : Abs!Returned(ok, d, v) = Returned(ok, d, v)
    /\ \A v, p : Abs!PushCall(v, p) = PushCall(v, p)
    /\ \A op : Abs!PopCall(op) = PopCall(op) /\ Abs!CloseCall(op) = CloseCall(op)
    /\ \A q, c, p, m : Abs!PushBlocks(q, c, p, m) = PushBlocks(q, c, p, m)
    /\ \A q, c, p, m, v : Abs!PushResult(q, c, p, m, v) = PushResult(q, c, p, m, v)
  BY DEF Abs!NoCall, NoCall, Abs!NoResult, NoResult, Abs!Threads, Threads, Abs!MaxSize, MaxSize,
         Abs!MaxSizeOf, MaxSizeOf, Abs!Returned, Returned, Abs!PushCall, PushCall,
         Abs!PopCall, PopCall, Abs!CloseCall, CloseCall, Abs!PushBlocks, PushBlocks,
         Abs!PushResult, PushResult

LEMMA SeenAsFacts ==
    ASSUME TypeOK, NEW t \in Threads, NEW c, call' = [call EXCEPT ![t] = c]
    PROVE  absCall' = [absCall EXCEPT ![t] = SeenAs(c)]
  BY DEF absCall, TypeOK

LEMMA AbsReturn ==
    ASSUME TypeOK, NEW t \in Threads, NEW r, Return(t, r)
    PROVE  Abs!Return(t, r)
  <1>1. SeenAs(NoCall) = NoCall
    BY DEF SeenAs, NoCall
  <1>2. absCall' = [absCall EXCEPT ![t] = NoCall]
    BY <1>1, SeenAsFacts DEF Return
  <1>3. QED
    BY SameInterface, <1>2 DEF Return, Abs!Return

LEMMA TryPushImplements ==
    ASSUME TypeOK, NEW t \in Threads, TryPush(t)
    PROVE  Abs!Push(t) \/ UNCHANGED Abs!vars
  <1>1. /\ call[t].op = "try_push" /\ absCall[t] = call[t]
        /\ call[t].policy \in AllPolicies
    BY CallFacts, QueueAssumption
    DEF TryPush, PushRefused, PushDropsNewest, PushDropsOldest, PushAppends, PushWaits, Pushing,
        absCall, SeenAs
  <1>2. ASSUME NEW ok, NEW d, NEW q, Return(t, Returned(ok, d, NoValue)), items' = q,
               UNCHANGED closed, ~PushBlocks(items, closed, call[t].policy, MaxSize),
               PushResult(items, closed, call[t].policy, MaxSize, call[t].value)
                   = [items |-> q, ok |-> ok, dropped |-> d]
        PROVE  Abs!Push(t)
    BY SameInterface, <1>1, <1>2, AbsReturn DEF Abs!Push
  <1>3. CASE PushRefused(t)
    BY <1>2, <1>3 DEF PushRefused, PushBlocks, PushResult
  <1>4. CASE PushDropsNewest(t)
    BY <1>2, <1>4 DEF PushDropsNewest, PushBlocks, PushResult, Full
  <1>5. CASE PushDropsOldest(t)
    BY <1>2, <1>5 DEF PushDropsOldest, EmplaceBack, PushBlocks, PushResult, Full
  <1>6. CASE PushAppends(t)
    BY <1>2, <1>6 DEF PushAppends, EmplaceBack, PushBlocks, PushResult, Full
  <1>7. CASE PushWaits(t)
    BY <1>7 DEF PushWaits, Abs!vars, absCall
  <1>8. QED
    BY <1>3, <1>4, <1>5, <1>6, <1>7 DEF TryPush

LEMMA PopImplements ==
    ASSUME TypeOK, NEW t \in Threads, Pop(t) \/ Expire(t) \/ SpuriousWake(t)
    PROVE  Abs!Take(t) \/ Abs!GiveUp(t) \/ UNCHANGED Abs!vars
  <1>1. CASE PopTakes(t)
    <2>1. absCall[t].op \in {"pop", "pop_for"}
      BY <1>1 DEF PopTakes, Popping, absCall, SeenAs, PopCall
    <2>2. Abs!Take(t)
      BY SameInterface, <1>1, <2>1, AbsReturn DEF PopTakes, Abs!Take
    <2>3. QED
      BY <2>2
  <1>2. CASE PopGivesUp(t)
    <2>1. (absCall[t].op = "pop" /\ closed) \/ absCall[t].op = "pop_for"
      BY <1>2 DEF PopGivesUp, Popping, absCall, SeenAs, PopCall
    <2>2. Abs!GiveUp(t)
      BY SameInterface, <1>2, <2>1, AbsReturn DEF PopGivesUp, NoResult, Abs!GiveUp
    <2>3. QED
      BY <2>2
  <1>3. CASE PopWaits(t)
    BY <1>3 DEF PopWaits, Abs!vars, absCall
  <1>4. CASE Expire(t)
    <2>1. SeenAs(PopCall("pop_for_expired")) = PopCall("pop_for")
      BY DEF SeenAs, PopCall
    <2>2. call[t] = PopCall("pop_for")
      <3>1. call[t] \in Calls /\ call[t].op = "pop_for"
        BY <1>4, CallFacts DEF Expire
      <3>2. PICK op \in {"pop", "pop_for", "pop_for_expired"} : call[t] = PopCall(op)
        BY <3>1 DEF Calls, PushCall, PopCall, CloseCall, NoCall
      <3>3. QED
        BY <3>1, <3>2 DEF PopCall
    <2>3. absCall' = absCall
      <3>1. absCall[t] = PopCall("pop_for")
        BY <2>2 DEF absCall, SeenAs, PopCall
      <3>2. QED
        BY <1>4, <2>1, <3>1, SeenAsFacts DEF Expire, absCall
    <2>4. QED
      BY <1>4, <2>3 DEF Expire, Abs!vars
  <1>5. CASE SpuriousWake(t)
    BY <1>5 DEF SpuriousWake, Abs!vars, absCall
  <1>6. QED
    BY <1>1, <1>2, <1>3, <1>4, <1>5 DEF Pop

LEMMA CloseImplements ==
    ASSUME TypeOK, NEW t \in Threads, Close(t)
    PROVE  Abs!SetClosed(t) \/ Abs!EndClose(t) \/ UNCHANGED Abs!vars
  <1>s. /\ SeenAs(CloseCall("notify_not_empty")) = CloseCall("closing")
        /\ SeenAs(CloseCall("notify_not_full")) = CloseCall("closing")
    BY DEF SeenAs, CloseCall
  <1>1. CASE CloseSets(t)
    <2>1. absCall[t].op = "close"
      BY <1>1 DEF CloseSets, absCall, SeenAs
    <2>2. absCall' = [absCall EXCEPT ![t] = CloseCall("closing")]
      BY <1>1, <1>s, SeenAsFacts DEF CloseSets
    <2>3. QED
      BY SameInterface, <1>1, <2>1, <2>2 DEF CloseSets, Abs!SetClosed
  <1>2. CASE CloseNotifiesNotEmpty(t)
    <2>1. absCall[t] = CloseCall("closing")
      BY <1>2 DEF CloseNotifiesNotEmpty, absCall, SeenAs
    <2>2. absCall' = absCall
      BY <1>2, <1>s, <2>1, SeenAsFacts DEF CloseNotifiesNotEmpty, absCall
    <2>3. QED
      BY <1>2, <2>2 DEF CloseNotifiesNotEmpty, Abs!vars
  <1>3. CASE CloseNotifiesNotFull(t)
    <2>1. absCall[t].op = "closing"
      BY <1>3 DEF CloseNotifiesNotFull, absCall, SeenAs, CloseCall
    <2>2. QED
      BY SameInterface, <1>3, <2>1, AbsReturn DEF CloseNotifiesNotFull, Abs!EndClose
  <1>4. QED
    BY <1>1, <1>2, <1>3 DEF Close

LEMMA BeginImplements ==
    ASSUME TypeOK, NEW t \in Threads, NEW c, Begin(t, c), SeenAs(c) = c
    PROVE  Abs!Begin(t, c)
  <1>1. absCall[t] = NoCall
    BY DEF Begin, absCall, SeenAs, NoCall
  <1>2. QED
    BY SameInterface, <1>1, SeenAsFacts DEF Begin, Abs!Begin

LEMMA NextImplements ==
    ASSUME TypeOK, [Next]_vars
    PROVE  [Abs!Next]_(Abs!vars)
  <1>1. ASSUME NEW t \in Pushers, NEW v \in Values, NEW p \in OverflowPolicies, Begin(t, PushCall(v, p))
        PROVE  Abs!Next
    <2>1. SeenAs(PushCall(v, p)) = PushCall(v, p) /\ t \in Threads
      BY DEF SeenAs, PushCall, Threads
    <2>2. QED
      BY SameInterface, <1>1, <2>1, BeginImplements DEF Abs!Next
  <1>2. ASSUME NEW t \in Poppers, NEW op \in {"pop", "pop_for"}, Begin(t, PopCall(op))
        PROVE  Abs!Next
    <2>1. SeenAs(PopCall(op)) = PopCall(op) /\ t \in Threads
      BY DEF SeenAs, PopCall, Threads
    <2>2. QED
      BY SameInterface, <1>2, <2>1, BeginImplements DEF Abs!Next
  <1>3. ASSUME NEW t \in Closers, Begin(t, CloseCall("close"))
        PROVE  Abs!Next
    <2>1. SeenAs(CloseCall("close")) = CloseCall("close") /\ t \in Threads
      BY DEF SeenAs, CloseCall, Threads
    <2>2. QED
      BY SameInterface, <1>3, <2>1, BeginImplements DEF Abs!Next
  <1>4. ASSUME NEW t \in Threads, Step(t) \/ Expire(t) \/ SpuriousWake(t)
        PROVE  Abs!Next \/ UNCHANGED Abs!vars
    BY SameInterface, <1>4, TryPushImplements, PopImplements, CloseImplements DEF Step, Abs!Next, Abs!Effect
  <1>5. CASE UNCHANGED vars
    BY <1>5 DEF vars, Abs!vars, absCall
  <1>6. QED
    BY <1>1, <1>2, <1>3, <1>4, <1>5 DEF Next

(* For any number of threads and any capacity, every call on the queue     *)
(* takes effect atomically and in first-in first-out order: the class, with *)
(* its mutex, its waits and its notifications, is a FifoQueue.             *)
THEOREM QueueLinearizable == SafeSpec => Linearizable
  <1>1. Init => Abs!Init
    BY SameInterface DEF Init, Abs!Init, absCall, SeenAs, NoCall
  <1>2. QED
    BY <1>1, InitTyped, NextTyped, NextImplements, PTL DEF SafeSpec, Linearizable, Abs!SafeSpec

=============================================================================
