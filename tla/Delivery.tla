------------------------------ MODULE Delivery ------------------------------
(***************************************************************************)
(* What the telemetry pipeline promises to its outputs, the stream hub and *)
(* the sinks: an event that enqueue admits is owed to every output, and is *)
(* paid once to each of them, in batches, or lost before any of them got   *)
(* it.  A stop ends when nothing is owed but events that were on their way *)
(* into the pipeline when it began.                                        *)
(***************************************************************************)
EXTENDS Naturals

CONSTANTS Events, Outputs

VARIABLES
    phase,      \* "off", "running" or "stopping"
    pending,    \* pending[o]: the events owed to output o
    delivered,  \* delivered[o][e]: how often output o was given event e
    lost,       \* the events that were admitted and thrown away
    late        \* the events that a stop need not wait for

vars == <<phase, pending, delivered, lost, late>>
eventVars == <<pending, delivered, lost>>

Init ==
    /\ phase = "off"
    /\ pending = [o \in Outputs |-> {}]
    /\ delivered = [o \in Outputs |-> [e \in Events |-> 0]]
    /\ lost = {} /\ late = {}

Known(e) == e \in lost \/ \E o \in Outputs : e \in pending[o] \/ delivered[o][e] > 0

\* Event e is admitted; the events in D, which no output has got, are lost to
\* make room for it.
Admit(e, D) ==
    /\ phase = "running" \/ (phase = "stopping" /\ e \in late)
    /\ lost' = lost \cup D
    /\ ~Known(e)
    /\ \A o \in Outputs : D \subseteq pending[o]
    /\ pending' = [o \in Outputs |-> (pending[o] \ D) \cup {e}]
    /\ UNCHANGED <<phase, delivered, late>>

\* Output o is given the events in S, which are owed to it.
Deliver(o, S) ==
    /\ phase # "off"
    /\ pending' = [pending EXCEPT ![o] = @ \ S]
    /\ delivered' = [delivered EXCEPT ![o] =
           [e \in Events |-> @[e] + (IF e \in S THEN 1 ELSE 0)]]
    /\ UNCHANGED <<phase, lost, late>>

Start ==
    /\ phase = "off" /\ phase' = "running"
    /\ UNCHANGED <<eventVars, late>>

BeginStop(L) ==
    /\ phase = "running" /\ phase' = "stopping"
    /\ \A e \in L : ~Known(e)
    /\ late' = L
    /\ UNCHANGED eventVars

EndStop ==
    /\ phase = "stopping" /\ phase' = "off"
    /\ \A o \in Outputs : pending[o] \subseteq late
    /\ UNCHANGED <<eventVars, late>>

Next ==
    \/ \E o \in Outputs : \E S \in SUBSET pending[o] : Deliver(o, S)
    \/ \E e \in Events : Admit(e, {}) \/ \E d \in Events : Admit(e, {d})
    \/ Start \/ EndStop
    \/ \E L \in SUBSET Events : BeginStop(L)

Spec == Init /\ [][Next]_vars

=============================================================================
