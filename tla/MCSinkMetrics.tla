--------------------------- MODULE MCSinkMetrics ----------------------------
(* A small instance of SinkMetrics for TLC.                                *)
EXTENDS SinkMetrics, TLC

CONSTANTS w1, w2

TwoWorkers == {w1, w2}

Symmetry == Permutations({w1, w2})

=============================================================================
