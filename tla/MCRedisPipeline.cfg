CONSTANTS
    Jobs = {j1, j2}
    SynthJobs = {j1}
    Workers = {w1, w2}
    NoRecord = NoRecord
    NoJob = NoJob
    MaxFailures = 2
SPECIFICATION FairSpec
INVARIANTS
    RunOnce
    CancelledNeverRuns
    SucceededHasArtifact
    FailureStrandsOneJob
    RecordsCoherent
PROPERTIES
    KeepsPromise
    EveryJobSettles
    EveryJobAnswered
CHECK_DEADLOCK FALSE
