SPECIFICATION Spec
CONSTANTS
    Dgrams = {0, 1}
    MaxBlock = 1
    Slots = 1
    RepeatWindow = 2
    CleanEvery = 1
    MaxTime = 5
INVARIANTS
    TypeOK
    LossOnlyByAgeOrCollision
PROPERTIES
    NoRepeatInWindow
