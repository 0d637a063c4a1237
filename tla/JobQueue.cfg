\* One job, two workers: every interleaving of two workers on one row.
CONSTANTS
    j1 = j1
    j2 = j2
    Jobs = {j1}
    Workers = {w1, w2}
    NoJob = NoJob
    NoWorker = NoWorker
    RequireSuccess <- Independent
    RequireTerminal <- Independent
    EnqueueDelays = {1}
    MaxAttempts = 2
    RetryDelays = {1}
    LeaseInterval = 2
    RecoveryBatch = 1
    MaxLag = 1
    MaxResourceWaits = 1
    MaxLate = 1
SPECIFICATION Spec
SYMMETRY Symmetry
INVARIANT
    IInv
PROPERTIES
    AttemptsAreFinal
    StaleWorkerIsFenced
    ImplementsLifecycle
