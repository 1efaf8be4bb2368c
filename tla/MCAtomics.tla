----------------------------- MODULE MCAtomics ------------------------------
(* Small instances of RateLimiter, SinkMetrics and Histogram for TLC.  The *)
(* three share no variable, and every property is about one of them: so    *)
(* one of them moves while the other two stay where they began.            *)
EXTENDS RateLimiter, SinkMetrics, Histogram, Functions, TLC

CONSTANTS t1, t2, w1, w2, o1, o2, o3

TwoThreads == {t1, t2}
TwoWorkers == {w1, w2}
ThreeObservers == {o1, o2, o3}

Symmetry ==
    Permutations(TwoThreads) \cup Permutations(TwoWorkers) \cup Permutations(ThreeObservers)

VARIABLE moving  \* which of the three it is, from the beginning on

AllBegin == moving \in {"limiter", "drops", "histogram"} /\ Init /\ DropInit /\ HistogramInit

NextOfOne ==
    \/ moving = "limiter" /\ Next /\ UNCHANGED <<moving, dropVars, histogramVars>>
    \/ moving = "drops" /\ DropNext /\ UNCHANGED <<moving, vars, histogramVars>>
    \/ moving = "histogram" /\ HistogramNext /\ UNCHANGED <<moving, vars, dropVars>>

EachAlone == AllBegin /\ [][NextOfOne]_<<moving, vars, dropVars, histogramVars>>

\* SumOf is the sum that the community modules define as a fold.
ASSUME \A f \in [1 .. 3 -> -2 .. 3] : SumOf(f, 1 .. 3) = SumFunction(f)

=============================================================================
