SPECIFICATION Spec
CONSTANTS
    h1 = h1  h2 = h2  sensor = sensor  v1 = v1  v2 = v2  bad = bad  none = none
    Handlers <- TwoHandlers
    Readings <- TwoReadings
    BadBodies <- OneBadBody
    NoRequest <- NoBody
    Retention = 1
    MaxLateness = 1
    LastTime = 4
SYMMETRY Symmetry
INVARIANTS
    ActiveIsHandlers
    AnswersAgree
    LastIsRecent
    RetentionIsKept
