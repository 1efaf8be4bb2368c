----------------------------- MODULE MCPipeline -----------------------------
(* Small instances of Pipeline for TLC.                                    *)
EXTENDS Pipeline, TLC

CONSTANTS p1, p2, w1, w2, e1, e2, e3, none

TwoProducers == {p1, p2}
OneWorker == {w1}
TwoWorkers == {w1, w2}
ThreeEvents == {e1, e2, e3}

\* Producers, workers and events have no order of their own.
Symmetry ==
    Permutations({p1, p2}) \cup Permutations({w1, w2}) \cup Permutations({e1, e2, e3})

=============================================================================
