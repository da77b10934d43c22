SPECIFICATION Spec
CONSTANTS
    SliderLen = 4
    WordBits = 2
    MsgNums <- MCMsgNums
    MaxDeferred = 2
INVARIANTS
    TypeOK
    AtMostOnce
    WindowExact
    AckExact
PROPERTIES
    DrainLosesNothing
