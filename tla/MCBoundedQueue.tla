--------------------------- MODULE MCBoundedQueue ---------------------------
(* A small instance of BoundedQueue for TLC: two threads on each side of a *)
(* queue of two places, so that two can sleep, two can be woken and one    *)
(* that never slept can come in between.                                   *)
EXTENDS BoundedQueue

CONSTANTS p1, p2, c1, c2, k1, v1, none

TwoPushers == {p1, p2}
TwoPoppers == {c1, c2}
OneCloser == {k1}
OneValue == {v1}

=============================================================================
