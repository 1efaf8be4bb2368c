SPECIFICATION HistogramSpec
CONSTANTS
    o1 = o1  o2 = o2
    Observers <- TwoObservers
    Values = {1, 2, 4}
    Boundaries = {2, 3}
    Infinity = 9
    MaxObservations = 2
SYMMETRY Symmetry
INVARIANTS
    BucketsAreLe
