CONSTANTS
    KeyRequired = TRUE
    PartialInterval = 2
    MaxFrames = 4
    MaxEnds = 2
    MaxTime = 4
SPECIFICATION FairSpec
INVARIANTS
    FinalsAreTheTranscript
    PartialsThrottled
PROPERTIES
    KeepsFeed
    PartialShowsNextFinal
    SessionEnds
CHECK_DEADLOCK FALSE
