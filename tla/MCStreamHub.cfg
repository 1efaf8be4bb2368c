SPECIFICATION Spec
CONSTANTS
    p1 = p1  p2 = p2  c1 = c1  c2 = c2
    Publishers <- TwoPublishers
    Clients <- TwoClients
    MaxPayloads = 3
    SubscriptionSize = 1
INVARIANTS
    TypeOK
    MissesOnlyWhenSlow
    SameOrder
PROPERTIES
    ExpiredAreErased
    PublishReturns
\* Once every payload is published and every client has left, nothing happens.
CHECK_DEADLOCK FALSE
