SPECIFICATION SafeSpec
CONSTANTS
    p1 = p1  p2 = p2  w1 = w1  w2 = w2  e1 = e1  e2 = e2  e3 = e3  none = none
    NoEvent = none
    Producers <- TwoProducers
    Workers <- TwoWorkers
    Events <- ThreeEvents
    Policy = "DropOldest"
    QueueSize = 1
    BatchSize = 2
    RuntimeBatchSizes = {0}
    NumSinks = 1
SYMMETRY Symmetry
INVARIANTS
    TypeOK
    NothingLost
    NoDuplicates
    CountersAgree
    BatchBounded
    StopDrains
PROPERTIES
    ImplementsDelivery
