SPECIFICATION FairSpec
CONSTANTS
    w1 = w1
    w2 = w2
    Workers <- MCWorkers
    NumJobs = 1
    NULL = NULL
    Nobody = Nobody
    Lease = 2
    MaxRetries = 2
    BackoffUnit = 1
    MaxCollisions = 0
    MaxFaults = 0
PROPERTIES OnlyHolderUpdates
