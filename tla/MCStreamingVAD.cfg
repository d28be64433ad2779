CONSTANTS
    FrameMs = 30
    FrameSize = 2
    MinSpeechMs = 50
    MinSilenceMs = 70
    MaxUtteranceMs = 130
    ChunkSizes = {1, 5}
    MaxStreamMs = 390
SPECIFICATION Spec
INVARIANTS
    NeverOverlap
    SilenceSeparates
    DurationBounded
    LostOnsetBounded
CHECK_DEADLOCK FALSE
