---------------------------- MODULE AlertEngine -----------------------------
(***************************************************************************)
(* AlertEngine (src/telemetry_alerting.cpp): a thread, and whoever calls   *)
(* evaluate_once, compares the metrics with the rules under one mutex that *)
(* is also held while the notifiers are called.  A rule is silent for its  *)
(* OWN cooldown after the last firing of any rule of its NAME, counted     *)
(* from the clock as it was read at the beginning of the evaluation.       *)
(*                                                                         *)
(* Only ages matter, so clock readings are kept as the time since then, up *)
(* to Forever.                                                             *)
(*                                                                         *)
(* A definition named Op_Something is Op with a mistake in it.  No action  *)
(* uses it: it is there to show that the properties would notice.          *)
(***************************************************************************)
EXTENDS Integers, Sequences, FiniteSets, FiniteSetsExt

CONSTANTS
    Callers,          \* threads that call evaluate_once
    Worker,           \* the thread that start makes
    Rules,            \* in the order of add_rule, each with a name, which others
                      \* may have too, and a cooldown; one whose metric has
                      \* several sets of labels is here several times
    LongestCooldown,  \* not below any of their cooldowns
    MaxDuration       \* the longest an evaluation lasts after it read the clock

NoOne == "no one"

ASSUME AlertAssumption ==
    /\ IsFiniteSet(Callers) /\ Worker \notin Callers
    /\ NoOne \notin Callers \cup {Worker}
    /\ Len(Rules) \in Nat
    /\ LongestCooldown \in Nat /\ MaxDuration \in Nat
    /\ \A i \in DOMAIN Rules : Rules[i].cooldown \in 0 .. LongestCooldown

Evaluators == Callers \cup {Worker}
Names == {Rules[i].name : i \in DOMAIN Rules}
Forever == LongestCooldown + MaxDuration

VARIABLES
    running, thread,  \* running, and where the loop of the thread is
    control,     \* the thread that starts and stops the engine
    known,       \* how many rules have been added
    notifier,    \* whether there is a notifier
    exceeded,    \* the rules whose metric is beyond the threshold now
    owner,       \* who holds mtx
    eval,        \* where each thread is in evaluate_once, and its locals
    last_fired,  \* the age of the last firing of each name
    notified,    \* history: the age of the last alert of each name...
    gap          \* ... and what it was when a rule of the name last raised one

rulesVars == <<known, notifier, exceeded>>
ages == <<last_fired, notified, gap>>
vars == <<running, thread, control, rulesVars, owner, eval, ages>>

Idle == [step |-> "idle", left |-> {}, late |-> 0]

Init ==
    /\ running = FALSE /\ thread = "done" /\ control = "created"
    /\ known = 0 /\ notifier = FALSE /\ exceeded = {}
    /\ owner = NoOne
    /\ eval = [e \in Evaluators |-> Idle]
    /\ last_fired = [n \in Names |-> Forever]
    /\ notified = [n \in Names |-> Forever]
    /\ gap = [i \in DOMAIN Rules |-> Forever]

-----------------------------------------------------------------------------
(* evaluate_once, in thread e.                                             *)

EvalUnchanged == <<running, control, rulesVars>>

At(e, step) == eval[e].step = step

\* The first of the rules that are left, and its name.
Rule(e) == Min(eval[e].left)
Name(e) == Rules[Rule(e)].name

RuleIsDone(e) == eval' = [eval EXCEPT ![e].step = "rules", ![e].left = @ \ {Rule(e)}]

MutexIsFree == owner = NoOne

\* The lock, and registry.snapshot(), from which the rules see their metrics.
Snapshot(e) ==
    /\ At(e, "idle") /\ (e = Worker => thread = "evaluate")
    /\ MutexIsFree
    /\ owner' = e
    /\ eval' = [eval EXCEPT ![e].step = "clock", ![e].left = {i \in exceeded : i <= known}]
    /\ UNCHANGED <<EvalUnchanged, thread, ages>>

ReadClock(e) ==
    /\ At(e, "clock")
    /\ eval' = [eval EXCEPT ![e].step = "rules", ![e].late = 0]
    /\ UNCHANGED <<EvalUnchanged, thread, owner, ages>>

\* As if a name had one cooldown, that of the last rule added for it.
Silenced_ByLastRule(e) ==
    LET last == Max({i \in DOMAIN Rules : Rules[i].name = Name(e)})
    IN  last_fired[Name(e)] - eval[e].late < Rules[last].cooldown

\* now - fired->second < rule.cooldown
Silenced(e) == last_fired[Name(e)] - eval[e].late < Rules[Rule(e)].cooldown

\* As if an alert that is silenced began a new cooldown.
Skip_Refreshes(e) ==
    /\ At(e, "rules") /\ eval[e].left # {} /\ Silenced(e)
    /\ RuleIsDone(e)
    /\ last_fired' = [last_fired EXCEPT ![Name(e)] = eval[e].late]
    /\ UNCHANGED <<EvalUnchanged, thread, owner, notified, gap>>

Skip(e) ==
    /\ At(e, "rules") /\ eval[e].left # {} /\ Silenced(e)
    /\ RuleIsDone(e)
    /\ UNCHANGED <<EvalUnchanged, thread, owner, ages>>

Decide(e) ==
    /\ At(e, "rules") /\ eval[e].left # {} /\ ~Silenced(e)
    /\ eval' = [eval EXCEPT ![e].step = "fire"]
    /\ UNCHANGED <<EvalUnchanged, thread, owner, ages>>

Fire(e) ==
    /\ At(e, "fire")
    /\ last_fired' = [last_fired EXCEPT ![Name(e)] = eval[e].late]
    /\ eval' = [eval EXCEPT ![e].step = "notify"]
    /\ UNCHANGED <<EvalUnchanged, thread, owner, notified, gap>>

Notify(e) ==
    /\ At(e, "notify")
    /\ RuleIsDone(e)
    /\ IF notifier
       THEN /\ gap' = [gap EXCEPT ![Rule(e)] = notified[Name(e)]]
            /\ notified' = [notified EXCEPT ![Name(e)] = 0]
       ELSE UNCHANGED <<gap, notified>>
    /\ UNCHANGED <<EvalUnchanged, thread, owner, last_fired>>

\* The thread then sleeps until the next evaluation.
Unlock(e) ==
    /\ At(e, "rules") /\ eval[e].left = {}
    /\ owner' = NoOne
    /\ eval' = [eval EXCEPT ![e] = Idle]
    /\ thread' = IF e = Worker THEN "check" ELSE thread
    /\ UNCHANGED <<EvalUnchanged, ages>>

GoOn(e) == ReadClock(e) \/ Skip(e) \/ Decide(e) \/ Fire(e) \/ Notify(e) \/ Unlock(e)

-----------------------------------------------------------------------------
(* The loop of the thread, start and stop.                                 *)

ControlUnchanged == <<rulesVars, owner, eval, ages>>

CheckRunning ==
    /\ thread = "check"
    /\ thread' = IF running THEN "evaluate" ELSE "done"
    /\ UNCHANGED <<running, control, ControlUnchanged>>

Start ==
    /\ control \in {"created", "stopped"} /\ control' = "started"
    /\ running' = TRUE /\ thread' = "check"
    /\ UNCHANGED ControlUnchanged

StopBegins ==
    /\ control = "started" /\ control' = "joining"
    /\ running' = FALSE
    /\ UNCHANGED <<thread, ControlUnchanged>>

Join ==
    /\ control = "joining" /\ thread = "done" /\ control' = "stopped"
    /\ UNCHANGED <<running, thread, ControlUnchanged>>

-----------------------------------------------------------------------------
(* add_rule, add_notifier, the metrics, and time.                          *)

AddRule ==
    /\ known < Len(Rules) /\ MutexIsFree
    /\ known' = known + 1
    /\ UNCHANGED <<running, thread, control, notifier, exceeded, owner, eval, ages>>

AddNotifier ==
    /\ MutexIsFree
    /\ notifier' = TRUE
    /\ UNCHANGED <<running, thread, control, known, exceeded, owner, eval, ages>>

MetricChanges ==
    /\ \E i \in DOMAIN Rules :
           exceeded' = IF i \in exceeded THEN exceeded \ {i} ELSE exceeded \cup {i}
    /\ UNCHANGED <<running, thread, control, known, notifier, owner, eval, ages>>

Older(age) == [n \in Names |-> IF age[n] < Forever THEN age[n] + 1 ELSE Forever]

Tick ==
    LET timed == {e \in Evaluators : eval[e].step \in {"rules", "fire", "notify"}}
    IN  /\ \A e \in timed : eval[e].late < MaxDuration
        /\ eval' = [e \in Evaluators |->
               IF e \in timed THEN [eval[e] EXCEPT !.late = @ + 1] ELSE eval[e]]
        /\ last_fired' = Older(last_fired) /\ notified' = Older(notified)
        /\ UNCHANGED <<running, thread, control, rulesVars, owner, gap>>

Next ==
    \/ \E e \in Evaluators : Snapshot(e) \/ GoOn(e)
    \/ CheckRunning \/ Start \/ StopBegins \/ Join
    \/ AddRule \/ AddNotifier \/ MetricChanges \/ Tick

SafeSpec == Init /\ [][Next]_vars

\* The thread goes on when it can, an evaluation that has begun comes to its
\* end, notifiers included, and time passes.  Nothing else has to happen.
Fairness ==
    /\ \A e \in Evaluators : WF_vars(GoOn(e))
    /\ WF_vars(Snapshot(Worker)) /\ WF_vars(CheckRunning)
    /\ WF_vars(Tick)

Spec == SafeSpec /\ Fairness

-----------------------------------------------------------------------------
(* Between an alert of a rule and the one of its name before it, which    *)
(* another rule may have raised, lies the rule's own cooldown, less what   *)
(* an evaluation may take until it calls the notifier, whoever evaluates   *)
(* and also across a stop and a new start.                                 *)
CooldownIsKept == \A i \in DOMAIN Rules : gap[i] >= Rules[i].cooldown - MaxDuration

(* While the engine runs and a metric stays beyond the threshold of a      *)
(* rule, there is an alert of the NAME of this rule again and again.  The  *)
(* rule itself may never raise one, if others of its name keep it silent.  *)
AlertIsRaised ==
    \A i \in DOMAIN Rules :
        <>[](control = "started" /\ notifier /\ i <= known /\ i \in exceeded)
            => []<>(notified[Rules[i].name] = 0)

=============================================================================
