---------------------------- MODULE MCSinkWorker ----------------------------
(* Small instances of SinkWorker for TLC: two submitters fill, overflow    *)
(* and block the queue of a sink.                                          *)
EXTENDS SinkWorker, TLC

CONSTANTS s1, s2, a, b, c, none

TwoSubmitters == {s1, s2}
TwoPayloads == {a, b}
ThreePayloads == {a, b, c}

Symmetry == Permutations(TwoSubmitters) \cup Permutations(ThreePayloads)

=============================================================================
