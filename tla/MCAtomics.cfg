SPECIFICATION EachAlone
CONSTANTS
    t1 = t1  t2 = t2  w1 = w1  w2 = w2  o1 = o1  o2 = o2  o3 = o3
    Threads <- TwoThreads
    Limit = 2
    LastSecond = 4
    Workers <- TwoWorkers
    NumSinks = 2
    MaxBatches = 2
    Observers <- ThreeObservers
    Values = {1, 2, 4}
    Boundaries = {2, 3}
    Infinity = 9
    MaxObservations = 3
SYMMETRY Symmetry
INVARIANTS
    SurgeBound
    NoDropMissing
    BucketsAddUp
    SnapshotCovers
\* The workers of SinkMetrics stop after MaxBatches.
CHECK_DEADLOCK FALSE
