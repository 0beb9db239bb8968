\* Two workers, one job, leases of two ticks, delays of 2 and then 3.
CONSTANTS
    NumJobs = 1
    Workers = {w1, w2}
    MaxAttempts = 3
    LeaseTime = 2
    NumStages = 2
    RetryBase = 2
    RetryMax = 3
SPECIFICATION FairSpec
PROPERTIES
    JobsSettle
    ImplementsJobLifecycle
