SPECIFICATION FairSpec
CONSTANTS
    Dgrams = {0, 1}
    MaxBlock = 1
    Slots = 2
    RepeatWindow = 2
    CleanEvery = 1
    MaxTime = 2
PROPERTIES
    IsReliable
    EventuallySettled
