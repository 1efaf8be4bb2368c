---------------------------- MODULE RateLimiter -----------------------------
(***************************************************************************)
(* TelemetryPipeline::within_rate_limit (src/telemetry_pipeline.cpp): all  *)
(* callers share two atomics, the second that is being counted and the     *)
(* count, and no lock.  Every access to one of them is a step.             *)
(*                                                                         *)
(* A definition named Op_Something is Op with a mistake in it.  No action  *)
(* uses it: it is there to show that the properties would notice.          *)
(***************************************************************************)
EXTENDS Naturals, FiniteSets

CONSTANTS
    Threads,    \* threads that call enqueue
    Limit,      \* rate_limit_per_second, not 0: 0 turns the check off
    LastSecond  \* bound: the clock goes from second 1 to this one

ASSUME RateAssumption ==
    /\ IsFiniteSet(Threads) /\ Threads # {}
    /\ Limit \in Nat \ {0}
    /\ LastSecond \in Nat \ {0}

Seconds == 1 .. LastSecond

VARIABLES
    clock,         \* system_clock, in seconds
    token_second,  \* std::atomic<std::uint64_t> token_second
    token_count,   \* std::atomic<std::size_t> token_count
    at,            \* where each thread is in within_rate_limit
    second,        \* its locals second...
    observed,      \* ... and observed
    admitted       \* history: how many calls were admitted in each second

vars == <<clock, token_second, token_count, at, second, observed, admitted>>
locals == <<second, observed>>

Steps == {"idle", "load", "exchange", "reset", "add"}

TypeOK ==
    /\ clock \in Seconds
    /\ token_second \in Seconds \cup {0}
    /\ token_count \in 0 .. Limit + 1
    /\ at \in [Threads -> Steps]
    /\ second \in [Threads -> Seconds]
    /\ observed \in [Threads -> Seconds \cup {0}]
    /\ admitted \in [Seconds -> Nat]

Init ==
    /\ clock = 1
    /\ token_second = 0 /\ token_count = 0
    /\ at = [t \in Threads |-> "idle"]
    /\ second = [t \in Threads |-> 1]
    /\ observed = [t \in Threads |-> 0]
    /\ admitted = [s \in Seconds |-> 0]

Goto(t, from, to) == at[t] = from /\ at' = [at EXCEPT ![t] = to]

-----------------------------------------------------------------------------
ReadClock(t) ==
    /\ Goto(t, "idle", "load")
    /\ second' = [second EXCEPT ![t] = clock]
    /\ UNCHANGED <<clock, token_second, token_count, observed, admitted>>

Load(t) ==
    /\ Goto(t, "load", IF token_second = second[t] THEN "add" ELSE "exchange")
    /\ observed' = [observed EXCEPT ![t] = token_second]
    /\ UNCHANGED <<clock, token_second, token_count, second, admitted>>

\* compare_exchange_strong; the thread it fails for resets nothing.
Exchange(t) ==
    LET same == token_second = observed[t]
    IN  /\ Goto(t, "exchange", IF same THEN "reset" ELSE "add")
        /\ token_second' = IF same THEN second[t] ELSE token_second
        /\ observed' = [observed EXCEPT ![t] = token_second]
        /\ UNCHANGED <<clock, token_count, second, admitted>>

Reset(t) ==
    /\ Goto(t, "reset", "add")
    /\ token_count' = 0
    /\ UNCHANGED <<clock, token_second, locals, admitted>>

\* As if current were compared with <=.
Admits_OffByOne(current) == current <= Limit

Admits(current) == current < Limit

\* fetch_add.  The count is kept up to Limit + 1: what is above makes no odds.
Add(t) ==
    /\ Goto(t, "add", "idle")
    /\ token_count' = IF token_count <= Limit THEN token_count + 1 ELSE token_count
    /\ admitted' = [admitted EXCEPT ![second[t]] = IF Admits(token_count) THEN @ + 1 ELSE @]
    /\ UNCHANGED <<clock, token_second, locals>>

Tick ==
    /\ clock < LastSecond
    /\ clock' = clock + 1
    /\ UNCHANGED <<token_second, token_count, at, locals, admitted>>

Next ==
    \/ \E t \in Threads : ReadClock(t) \/ Load(t) \/ Exchange(t) \/ Reset(t) \/ Add(t)
    \/ Tick

SafeSpec == Init /\ [][Next]_vars

-----------------------------------------------------------------------------
(* What the two atomics do guarantee.  The count starts again from 0 a few *)
(* times in the same second, twice for every other thread that is late     *)
(* (it may set token_second back and then clear the count), and each other *)
(* thread may have one more call of that second to finish in a later one.  *)
SurgeBound ==
    LET others == Cardinality(Threads) - 1
    IN  \A s \in Seconds : admitted[s] <= (2 * others + 1) * Limit + others

=============================================================================
