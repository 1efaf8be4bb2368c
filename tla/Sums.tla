-------------------------------- MODULE Sums --------------------------------
(***************************************************************************)
(* The sum of a function with integer values over a finite set, as the     *)
(* size of a set of units and not as a fold: what is summed up can then be *)
(* reasoned about with the theorems on finite sets.                        *)
(***************************************************************************)
EXTENDS Integers, FiniteSets

\* For each x in S as many units as f[x] says, and none if it is below 0.
Units(f, S) == UNION {{x} \X (1 .. f[x]) : x \in S}

\* What is above 0 less what is below.
SumOf(f, S) == Cardinality(Units(f, S)) - Cardinality(Units([x \in S |-> -f[x]], S))

=============================================================================
