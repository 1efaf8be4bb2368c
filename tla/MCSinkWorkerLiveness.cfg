SPECIFICATION Spec
CONSTANTS
    s1 = s1  s2 = s2  a = a  b = b  c = c  none = none
    NoPayload = none
    Submitters <- TwoSubmitters
    Payloads <- TwoPayloads
    Policies = {"DropNewest", "DropOldest", "Block"}
    QueueSize = 1
    MaxAttempts = 2
    InitialBackoff = 2
    MaxBackoff = 3
PROPERTIES
    StopReturns
    AcceptedIsSettled
