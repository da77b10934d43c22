SPECIFICATION Spec
CONSTANTS
    Dgrams = {0}
    MaxBlock = 1
    Slots = 1
    RepeatWindow = 2
    CleanEvery = 1
    MaxTime = 5
INVARIANTS
    FullAckMeansCompleted
