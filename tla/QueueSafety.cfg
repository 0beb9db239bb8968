\* Two workers race for two jobs, each job may be tried twice.
CONSTANTS
    NumJobs = 2
    Workers = {w1, w2}
    MaxAttempts = 2
    LeaseTime = 2
    NumStages = 2
    RetryBase = 2
    RetryMax = 2
SPECIFICATION Spec
SYMMETRY WorkerSymmetry
INVARIANTS
    TypeOK
    ClaimAccounting
    SinglePublication
    HolderUnique
    LeaseMatchesStatus
PROPERTIES
    StaleWorkerHarmless
    SettledForever
