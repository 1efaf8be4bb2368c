SPECIFICATION Spec
CONSTANTS
    p1 = p1  p2 = p2  c1 = c1  c2 = c2  k1 = k1  v1 = v1  none = none
    Pushers <- TwoPushers
    Poppers <- TwoPoppers
    Closers <- OneCloser
    Values <- OneValue
    NoValue = none
    OverflowPolicies = {"DropNewest", "DropOldest", "Block"}
    RequestedCapacity = 2
INVARIANTS
    TypeOK
    NoLostItem
    NoLostPlace
    NoSleeperAfterClose
    NoMutualWait
PROPERTY
    ImplementsFifoQueue
