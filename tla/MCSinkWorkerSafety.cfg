SPECIFICATION SafeSpec
CONSTANTS
    s1 = s1  s2 = s2  a = a  b = b  c = c  none = none
    NoPayload = none
    Submitters <- TwoSubmitters
    Payloads <- ThreePayloads
    Policies = {"DropNewest", "DropOldest", "Block"}
    QueueSize = 2
    MaxAttempts = 2
    InitialBackoff = 2
    MaxBackoff = 3
SYMMETRY Symmetry
INVARIANTS
    SinkTypeOK
    EachInOnePlace
    StatsAgree
    ReceivedInOrder
    StopWritesAll
