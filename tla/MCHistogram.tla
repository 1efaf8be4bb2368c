---------------------------- MODULE MCHistogram -----------------------------
(* A small instance of Histogram for TLC: a value equals a boundary.       *)
EXTENDS Histogram, TLC

CONSTANTS o1, o2

TwoObservers == {o1, o2}
Symmetry == Permutations(TwoObservers)

=============================================================================
