CONSTANTS
    Jobs = {j1, j2}
    SynthJobs = {j1}
    Workers = {w1, w2}
    NoRecord = NoRecord
    NoJob = NoJob
    MaxFailures = 0
SPECIFICATION Spec
INVARIANT DeletedStaysDeleted
CHECK_DEADLOCK FALSE
