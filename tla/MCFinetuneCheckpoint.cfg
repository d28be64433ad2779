CONSTANTS
    Epochs = 4
    Batches = 3
    Wers = {1, 2, 3}
    Settings <- MCSettings
    NoWer = NoWer
    Torn = Torn
    NoCheckpoint = NoCheckpoint
    MaxResumes = 2
SPECIFICATION Spec
INVARIANTS
    NoEpochSkipped
    ScheduleSuffices
    GradientsKept
    LostWorkBounded
    EarlyStopEarned
CHECK_DEADLOCK FALSE
