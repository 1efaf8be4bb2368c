SPECIFICATION DropSpec
CONSTANTS
    w1 = w1  w2 = w2
    Workers <- TwoWorkers
    NumSinks = 1
    MaxBatches = 2
SYMMETRY Symmetry
INVARIANTS
    NeverOvercounts
\* Every worker stops after MaxBatches.
CHECK_DEADLOCK FALSE
