----------------------------- MODULE AlertProofs ----------------------------
(***************************************************************************)
(* Proofs about AlertEngine, for any callers, any rules, each with its own *)
(* name and cooldown, and any length of an evaluation.                     *)
(***************************************************************************)
EXTENDS AlertEngine, TLAPS

Steps == {"idle", "clock", "rules", "fire", "notify"}
Ages == 0 .. Forever

Typed ==
    /\ exceeded \subseteq DOMAIN Rules
    /\ eval \in [Evaluators ->
                    [step : Steps, left : SUBSET DOMAIN Rules, late : 0 .. MaxDuration]]
    /\ last_fired \in [Names -> Ages] /\ notified \in [Names -> Ages]
    /\ gap \in [DOMAIN Rules -> Ages]

\* One thread at a time evaluates, the owner of the mutex.
Exclusive == \A e \in Evaluators : eval[e].step # "idle" => owner = e

\* The last call of a notifier is no older than the firing it belongs to, but
\* for the time the evaluation took to get there; a firing may also have had no
\* notifier to call.
NotifiedInTime == \A n \in Names : notified[n] >= last_fired[n] - MaxDuration

\* What a thread that has decided to fire knows: the cooldown of its rule was
\* over when it read the clock.
DecidedInTime ==
    \A e \in Evaluators :
        /\ eval[e].step \in {"fire", "notify"} /\ Rule(e) \in DOMAIN Rules
             => notified[Name(e)] >= Rules[Rule(e)].cooldown - MaxDuration + eval[e].late
        /\ eval[e].step = "notify" /\ Name(e) \in Names
             => last_fired[Name(e)] = eval[e].late

Inv == Typed /\ Exclusive /\ NotifiedInTime /\ DecidedInTime /\ CooldownIsKept

\* A rule has one of the names, and a cooldown that is never the longest age.
LEMMA RuleFacts ==
    /\ LongestCooldown \in Nat /\ MaxDuration \in Nat
    /\ Forever = LongestCooldown + MaxDuration
    /\ \A i \in DOMAIN Rules : /\ Rules[i].name \in Names
                               /\ Rules[i].cooldown \in 0 .. LongestCooldown
BY AlertAssumption DEF AlertAssumption, Forever, Names

\* What has nothing to do with the times of a rule.
LEMMA OtherStepsKeepInv ==
    ASSUME Inv, UNCHANGED <<exceeded, owner, eval, ages>>
    PROVE  Inv'
BY DEF Inv, Typed, Exclusive, NotifiedInTime, DecidedInTime, CooldownIsKept, ages, Name, Rule

\* Time passes for everybody at once, and for nobody beyond Forever.
LEMMA TickKeepsInv ==
    ASSUME Inv, Tick
    PROVE  Inv'
<1> DEFINE timed == {e \in Evaluators : eval[e].step \in {"rules", "fire", "notify"}}
<1>1. /\ \A e \in timed : eval[e].late < MaxDuration
      /\ eval' = [e \in Evaluators |->
             IF e \in timed THEN [eval[e] EXCEPT !.late = @ + 1] ELSE eval[e]]
      /\ last_fired' = Older(last_fired) /\ notified' = Older(notified)
      /\ UNCHANGED <<exceeded, owner, gap>>
  BY DEF Tick, rulesVars
<1>2. LongestCooldown \in Nat /\ MaxDuration \in Nat /\ Forever = LongestCooldown + MaxDuration
  BY RuleFacts
<1>3. ASSUME NEW e \in Evaluators
      PROVE  /\ eval'[e].step = eval[e].step /\ eval'[e].left = eval[e].left
             /\ Rule(e)' = Rule(e) /\ Name(e)' = Name(e)
             /\ eval'[e] \in [step : Steps, left : SUBSET DOMAIN Rules, late : 0 .. MaxDuration]
             /\ e \in timed => eval'[e].late = eval[e].late + 1
  <2>1. eval[e] \in [step : Steps, left : SUBSET DOMAIN Rules, late : 0 .. MaxDuration]
    BY DEF Inv, Typed
  <2>2. /\ eval'[e].step = eval[e].step /\ eval'[e].left = eval[e].left
        /\ eval'[e] \in [step : Steps, left : SUBSET DOMAIN Rules, late : 0 .. MaxDuration]
        /\ e \in timed => eval'[e].late = eval[e].late + 1
    BY <1>1, <1>2, <2>1
  <2> QED
    BY <2>2 DEF Name, Rule
<1>4. ASSUME NEW n \in Names
      PROVE  /\ last_fired'[n] \in Ages /\ notified'[n] \in Ages
             /\ notified'[n] >= last_fired'[n] - MaxDuration
             /\ last_fired[n] < Forever => last_fired'[n] = last_fired[n] + 1
             /\ notified[n] < Forever => notified'[n] = notified[n] + 1
             /\ notified[n] = Forever => notified'[n] = Forever
  <2>1. /\ last_fired[n] \in Ages /\ notified[n] \in Ages
        /\ notified[n] >= last_fired[n] - MaxDuration
    BY DEF Inv, Typed, NotifiedInTime
  <2> QED
    BY <1>1, <1>2, <2>1 DEF Older, Ages
<1>5. Typed'
  <2>1. eval' \in [Evaluators ->
            [step : Steps, left : SUBSET DOMAIN Rules, late : 0 .. MaxDuration]]
    BY <1>1, <1>3
  <2>2. last_fired' \in [Names -> Ages] /\ notified' \in [Names -> Ages]
    BY <1>1, <1>4 DEF Older
  <2> QED
    BY <1>1, <2>1, <2>2 DEF Inv, Typed
<1>6. Exclusive'
  BY <1>1, <1>3 DEF Inv, Exclusive
<1>7. NotifiedInTime'
  BY <1>4 DEF NotifiedInTime
<1>8. DecidedInTime'
  <2> SUFFICES ASSUME NEW e \in Evaluators, eval'[e].step \in {"fire", "notify"}
               PROVE  /\ Rule(e)' \in DOMAIN Rules => notified'[Name(e)']
                             >= Rules[Rule(e)'].cooldown - MaxDuration + eval'[e].late
                      /\ eval'[e].step = "notify" /\ Name(e)' \in Names
                             => last_fired'[Name(e)'] = eval'[e].late
    BY DEF DecidedInTime
  <2>1. /\ e \in timed /\ Rule(e)' = Rule(e) /\ Name(e)' = Name(e)
        /\ eval'[e].late = eval[e].late + 1
        /\ eval'[e].step = eval[e].step /\ eval[e].late \in 0 .. MaxDuration
    BY <1>3 DEF Inv, Typed
  <2>2. eval[e].late < MaxDuration
    BY <1>1, <2>1
  <2>3. ASSUME Rule(e) \in DOMAIN Rules
        PROVE  notified'[Name(e)] >= Rules[Rule(e)].cooldown - MaxDuration + eval'[e].late
    <3>1. notified[Name(e)] >= Rules[Rule(e)].cooldown - MaxDuration + eval[e].late
      BY <2>1, <2>3 DEF Inv, DecidedInTime
    <3>2. Name(e) \in Names /\ Rules[Rule(e)].cooldown \in 0 .. LongestCooldown
      BY <2>3, RuleFacts DEF Name
    <3>3. notified[Name(e)] \in Ages
      BY <3>2 DEF Inv, Typed
    <3> QED
      BY <1>2, <1>4, <2>1, <2>2, <3>1, <3>2, <3>3 DEF Ages
  <2>4. ASSUME eval[e].step = "notify", Name(e) \in Names
        PROVE  last_fired'[Name(e)] = eval'[e].late
    <3>1. last_fired[Name(e)] = eval[e].late
      BY <2>4 DEF Inv, DecidedInTime
    <3> QED
      BY <1>2, <1>4, <2>1, <2>2, <2>4, <3>1
  <2> QED
    BY <2>1, <2>3, <2>4
<1>9. CooldownIsKept'
  BY <1>1 DEF Inv, CooldownIsKept
<1> QED
  BY <1>5, <1>6, <1>7, <1>8, <1>9 DEF Inv

\* The steps of an evaluation, up to the decision to fire.
LEMMA LookingKeepsInv ==
    ASSUME Inv, NEW e \in Evaluators,
           Snapshot(e) \/ ReadClock(e) \/ Skip(e) \/ Unlock(e)
    PROVE  Inv'
<1>1. MaxDuration \in Nat /\ 0 \in 0 .. MaxDuration
  BY AlertAssumption DEF AlertAssumption
<1>2. /\ UNCHANGED <<exceeded, last_fired, notified, gap>>
      /\ \A d \in Evaluators \ {e} : eval'[d] = eval[d]
      /\ eval'[e].step \notin {"fire", "notify"}
      /\ eval' \in [Evaluators ->
             [step : Steps, left : SUBSET DOMAIN Rules, late : 0 .. MaxDuration]]
  <2>0. /\ eval \in [Evaluators ->
               [step : Steps, left : SUBSET DOMAIN Rules, late : 0 .. MaxDuration]]
        /\ exceeded \subseteq DOMAIN Rules
    BY DEF Inv, Typed
  <2>1. CASE Snapshot(e)
    <3>1. UNCHANGED <<exceeded, last_fired, notified, gap>>
      BY <2>1 DEF Snapshot, EvalUnchanged, rulesVars, ages
    <3>2. {i \in exceeded : i <= known} \in SUBSET DOMAIN Rules
      BY <2>0
    <3> QED
      BY <2>0, <2>1, <3>1, <3>2 DEF Snapshot, Steps
  <2>2. CASE ReadClock(e)
    <3>1. UNCHANGED <<exceeded, last_fired, notified, gap>>
      BY <2>2 DEF ReadClock, EvalUnchanged, rulesVars, ages
    <3> QED
      BY <1>1, <2>0, <2>2, <3>1 DEF ReadClock, Steps
  <2>3. CASE Skip(e)
    <3>1. UNCHANGED <<exceeded, last_fired, notified, gap>>
      BY <2>3 DEF Skip, EvalUnchanged, rulesVars, ages
    <3> QED
      BY <1>1, <2>0, <2>3, <3>1 DEF Skip, RuleIsDone, Steps
  <2>4. CASE Unlock(e)
    <3>1. UNCHANGED <<exceeded, last_fired, notified, gap>>
      BY <2>4 DEF Unlock, EvalUnchanged, rulesVars, ages
    <3> QED
      BY <1>1, <2>0, <2>4, <3>1 DEF Unlock, Idle, Steps
  <2> QED
    BY <2>1, <2>2, <2>3, <2>4
<1>3. Exclusive'
  <2>1. CASE Snapshot(e)
    <3>1. NoOne \notin Evaluators
      BY AlertAssumption DEF AlertAssumption, Evaluators
    <3>2. owner = NoOne /\ owner' = e
      BY <2>1 DEF Snapshot, MutexIsFree
    <3>3. \A d \in Evaluators : eval[d].step = "idle"
      BY <3>1, <3>2 DEF Inv, Exclusive
    <3> QED
      BY <1>2, <3>2, <3>3 DEF Exclusive
  <2>2. CASE ReadClock(e) \/ Skip(e)
    BY <1>2, <2>2 DEF ReadClock, Skip, At, Inv, Exclusive
  <2>3. CASE Unlock(e)
    <3>1. owner = e /\ eval'[e].step = "idle"
      BY <2>3 DEF Unlock, At, Idle, Inv, Exclusive, Typed
    <3> QED
      BY <1>2, <3>1 DEF Inv, Exclusive
  <2> QED
    BY <2>1, <2>2, <2>3
<1>4. \A d \in Evaluators \ {e} : Rule(d)' = Rule(d) /\ Name(d)' = Name(d)
  BY <1>2 DEF Name, Rule
<1>5. DecidedInTime'
  BY <1>2, <1>4 DEF Inv, DecidedInTime
<1> QED
  BY <1>2, <1>3, <1>5 DEF Inv, Typed, NotifiedInTime, CooldownIsKept

\* The decision to fire, the firing, and the notifier.
LEMMA FiringKeepsInv ==
    ASSUME Inv, NEW e \in Evaluators, Decide(e) \/ Fire(e) \/ Notify(e)
    PROVE  Inv'
<1>1. LongestCooldown \in Nat /\ MaxDuration \in Nat /\ Forever = LongestCooldown + MaxDuration
  BY RuleFacts
<1>2. /\ UNCHANGED <<exceeded, owner>>
      /\ \A d \in Evaluators \ {e} : eval'[d] = eval[d]
      /\ eval' \in [Evaluators ->
             [step : Steps, left : SUBSET DOMAIN Rules, late : 0 .. MaxDuration]]
      /\ eval[e].late \in 0 .. MaxDuration /\ eval'[e].late = eval[e].late
      /\ eval[e].step # "idle"
  BY DEF Decide, Fire, Notify, RuleIsDone, At, EvalUnchanged, rulesVars, Inv, Typed, Steps,
         Name, Rule
<1>3. Exclusive' /\ \A d \in Evaluators \ {e} : eval'[d].step = "idle"
  BY <1>2 DEF Inv, Exclusive
<1>4. \A n \in Names : /\ last_fired[n] \in Ages /\ notified[n] \in Ages
                       /\ notified[n] >= last_fired[n] - MaxDuration
  BY DEF Inv, Typed, NotifiedInTime
<1>5. CASE Decide(e)
  <2>1. /\ UNCHANGED <<last_fired, notified, gap>> /\ eval'[e].step = "fire"
        /\ Rule(e)' = Rule(e) /\ Name(e)' = Name(e)
        /\ ~(last_fired[Name(e)] - eval[e].late < Rules[Rule(e)].cooldown)
    BY <1>5 DEF Decide, Silenced, ages, Inv, Typed, Name, Rule
  <2>2. ASSUME Rule(e) \in DOMAIN Rules
        PROVE  notified[Name(e)] >= Rules[Rule(e)].cooldown - MaxDuration + eval[e].late
    <3>1. Name(e) \in Names /\ Rules[Rule(e)].cooldown \in 0 .. LongestCooldown
      BY <2>2, RuleFacts DEF Name
    <3> QED
      BY <1>1, <1>2, <1>4, <2>1, <3>1 DEF Ages
  <2>3. DecidedInTime'
    BY <1>2, <1>3, <2>1, <2>2 DEF DecidedInTime
  <2> QED
    BY <1>2, <1>3, <2>1, <2>3 DEF Inv, Typed, NotifiedInTime, CooldownIsKept
<1>6. CASE Fire(e)
  <2>1. /\ UNCHANGED <<notified, gap>>
        /\ last_fired' = [last_fired EXCEPT ![Name(e)] = eval[e].late]
        /\ eval[e].step = "fire" /\ eval'[e].step = "notify"
        /\ Rule(e)' = Rule(e) /\ Name(e)' = Name(e)
    BY <1>6 DEF Fire, At, Inv, Typed, Name, Rule
  <2>2. last_fired \in [Names -> Ages] /\ eval[e].late \in Ages
    BY <1>1, <1>2 DEF Inv, Typed, Ages
  <2>3. last_fired' \in [Names -> Ages]
    BY <2>1, <2>2
  <2>4. NotifiedInTime'
    BY <1>1, <1>2, <1>4, <2>1, <2>2 DEF NotifiedInTime, Ages
  <2>5. /\ Rule(e) \in DOMAIN Rules
              => notified[Name(e)] >= Rules[Rule(e)].cooldown - MaxDuration + eval[e].late
        /\ Name(e) \in Names => last_fired'[Name(e)] = eval[e].late
    BY <2>1, <2>2 DEF Inv, DecidedInTime
  <2>6. DecidedInTime'
    BY <1>2, <1>3, <2>1, <2>5 DEF DecidedInTime
  <2> QED
    BY <1>2, <1>3, <2>1, <2>3, <2>4, <2>6 DEF Inv, Typed, CooldownIsKept
<1>7. CASE Notify(e)
  <2>1. /\ last_fired' = last_fired
        /\ eval[e].step = "notify" /\ eval'[e].step = "rules"
        /\ \/ /\ gap' = [gap EXCEPT ![Rule(e)] = notified[Name(e)]]
              /\ notified' = [notified EXCEPT ![Name(e)] = 0]
           \/ UNCHANGED <<gap, notified>>
    BY <1>7 DEF Notify, At, RuleIsDone, Inv, Typed
  <2>2. /\ Rule(e) \in DOMAIN Rules
              => notified[Name(e)] >= Rules[Rule(e)].cooldown - MaxDuration + eval[e].late
        /\ Name(e) \in Names => last_fired[Name(e)] = eval[e].late
    BY <2>1 DEF Inv, DecidedInTime
  <2>3. /\ gap \in [DOMAIN Rules -> Ages] /\ notified \in [Names -> Ages] /\ 0 \in Ages
        /\ Rule(e) \in DOMAIN Rules =>
               Name(e) \in Names /\ Rules[Rule(e)].cooldown \in 0 .. LongestCooldown
    BY <1>1, RuleFacts DEF Inv, Typed, Ages, Name
  <2>4. gap' \in [DOMAIN Rules -> Ages] /\ notified' \in [Names -> Ages]
    BY <1>4, <2>1, <2>3
  <2>5. NotifiedInTime'
    BY <1>1, <1>2, <1>4, <2>1, <2>2, <2>3 DEF NotifiedInTime, Ages
  <2>6. CooldownIsKept'
    <3> SUFFICES ASSUME NEW i \in DOMAIN Rules
                 PROVE  gap'[i] >= Rules[i].cooldown - MaxDuration
      BY DEF CooldownIsKept
    <3>1. gap[i] >= Rules[i].cooldown - MaxDuration
      BY DEF Inv, CooldownIsKept
    <3>2. CASE i = Rule(e)
      <4>1. gap'[i] = gap[i] \/ gap'[i] = notified[Name(e)]
        BY <2>1, <2>3
      <4>2. notified[Name(e)] >= Rules[i].cooldown - MaxDuration
        BY <1>1, <1>2, <1>4, <2>2, <2>3, <3>2 DEF Ages
      <4> QED
        BY <3>1, <4>1, <4>2
    <3>3. CASE i # Rule(e)
      BY <2>1, <2>3, <3>1, <3>3
    <3> QED
      BY <3>2, <3>3
  <2>7. DecidedInTime'
    BY <1>3, <2>1 DEF DecidedInTime
  <2> QED
    BY <1>2, <1>3, <2>1, <2>4, <2>5, <2>6, <2>7 DEF Inv, Typed
<1> QED
  BY <1>5, <1>6, <1>7

LEMMA InvNext ==
    ASSUME Inv, [Next]_vars
    PROVE  Inv'
<1>1. ASSUME NEW e \in Evaluators, Snapshot(e) \/ GoOn(e)
      PROVE  Inv'
  BY <1>1, LookingKeepsInv, FiringKeepsInv DEF GoOn
<1>2. CASE CheckRunning \/ Start \/ StopBegins \/ Join \/ AddRule \/ AddNotifier \/ UNCHANGED vars
  BY <1>2, OtherStepsKeepInv
     DEF CheckRunning, Start, StopBegins, Join, AddRule, AddNotifier, ControlUnchanged,
         rulesVars, vars
<1>3. CASE MetricChanges
  <2>1. exceeded' \subseteq DOMAIN Rules /\ UNCHANGED <<owner, eval, ages>>
    BY <1>3 DEF MetricChanges, Inv, Typed
  <2> QED
    BY <2>1 DEF Inv, Typed, Exclusive, NotifiedInTime, DecidedInTime, CooldownIsKept, ages,
                Name, Rule
<1>4. CASE Tick
  BY <1>4, TickKeepsInv
<1> QED
  BY <1>1, <1>2, <1>3, <1>4 DEF Next

\* For any rules, several of one name and with different cooldowns among them,
\* any callers of evaluate_once besides the thread, and however often the engine
\* is stopped and started: between an alert of a rule and the one of its name
\* before it lies the rule's own cooldown, less what an evaluation may take.
THEOREM CooldownHolds == SafeSpec => []CooldownIsKept
<1>1. Init => Inv
  <2> SUFFICES ASSUME Init PROVE Inv
    OBVIOUS
  <2>1. /\ LongestCooldown \in Nat /\ MaxDuration \in Nat
        /\ Forever = LongestCooldown + MaxDuration
        /\ \A i \in DOMAIN Rules : Rules[i].cooldown \in 0 .. LongestCooldown
    BY RuleFacts
  <2>2. Forever \in Ages /\ 0 \in 0 .. MaxDuration
    BY <2>1 DEF Ages
  <2>3. \A e \in Evaluators : eval[e].step = "idle"
    BY DEF Init, Idle
  <2>4. Typed
    BY <2>2 DEF Init, Typed, Idle, Steps
  <2>5. NotifiedInTime /\ CooldownIsKept
    BY <2>1 DEF Init, NotifiedInTime, CooldownIsKept
  <2> QED
    BY <2>3, <2>4, <2>5 DEF Inv, Exclusive, DecidedInTime
<1>2. Inv /\ [Next]_vars => Inv'
  BY InvNext
<1>3. Inv => CooldownIsKept
  BY DEF Inv
<1> QED
  BY <1>1, <1>2, <1>3, PTL DEF SafeSpec

=============================================================================
