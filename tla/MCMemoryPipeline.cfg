CONSTANTS
    Jobs = {j1, j2, j3}
    Workers = {w1}
    NoJob = NoJob
    MaxResults = 1
SPECIFICATION FairSpec
INVARIANTS
    OvershootBounded
    ResponseNeverMixesOutcomes
PROPERTIES
    NewestKept
    KeepsPromise
    EveryJobSettles
CHECK_DEADLOCK FALSE
