\* Two jobs, one needing the success of the other: prerequisites and
\* liveness with a worker that may crash for ever.
CONSTANTS
    j1 = j1
    j2 = j2
    Jobs = {j1, j2}
    Workers = {w1}
    NoJob = NoJob
    NoWorker = NoWorker
    RequireSuccess <- DependsOnSuccess
    RequireTerminal <- Independent
    EnqueueDelays = {1}
    MaxAttempts = 2
    RetryDelays = {1}
    LeaseInterval = 1
    RecoveryBatch = 2
    MaxLag = 0
    MaxResourceWaits = 1
    MaxLate = 1
SPECIFICATION FairSpec
INVARIANT
    StartedAfterPrerequisites
PROPERTIES
    EveryJobEnds
    CancelTakesEffect
