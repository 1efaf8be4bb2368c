--------------------------- MODULE MCAlertEngine ----------------------------
(* A small instance of AlertEngine for TLC: two rules share a name but not *)
(* their cooldown, and another thread evaluates beside the one of the      *)
(* engine.                                                                 *)
EXTENDS AlertEngine

CONSTANTS worker, caller, hot

OneCaller == {caller}
SlowAndFast == <<[name |-> hot, cooldown |-> 3], [name |-> hot, cooldown |-> 2]>>

=============================================================================
