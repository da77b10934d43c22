SPECIFICATION FairSpec
CONSTANTS
    SliderLen = 2
    WordBits = 1
    k1 = k1
    Keys <- MCKeys
    NoKey = NoKey
    RetryCounts = {1, 3}
    MaxCmds = 2
    MaxSessions = 2
INVARIANTS
    TypeOK
    AckMeansReceived
    RetryIsNewest
    Budget
    NumbersDistinct
PROPERTIES
    CommandSettles
