SPECIFICATION Spec
CONSTANTS
    p1 = p1  p2 = p2  w1 = w1  w2 = w2  e1 = e1  e2 = e2  e3 = e3  none = none
    NoEvent = none
    Producers <- TwoProducers
    Workers <- OneWorker
    Events <- ThreeEvents
    Policy = "Block"
    QueueSize = 0
    BatchSize = 2
    RuntimeBatchSizes = {}
    NumSinks = 0
PROPERTIES
    StopReturns
    AcceptedIsDelivered
    OneWorkerKeepsOrder
