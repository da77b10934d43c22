SPECIFICATION Spec
CONSTANTS
    Small = {s1, s2, s3}
    Large = {big}
    LargeSize = 5
    Dgrams <- MCDgrams
    Size <- MCSize
    Rtt = 1
    PathDelay = 2
    Limit = 1
    MaxRetries = 1
    MaxTime = 12
SYMMETRY SmallSymmetry
INVARIANTS
    TypeOK
    ClockIsOldest
    BlocksTakeTurns
PROPERTIES
    NoTickWasted
    GivenUpLate
CHECK_DEADLOCK FALSE
