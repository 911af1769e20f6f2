SPECIFICATION StreamSpec
CONSTANTS
    w1 = w1
    w2 = w2
    Workers <- MCWorkers
    NumJobs = 1
    NULL = NULL
    Nobody = Nobody
    Lease = 2
    MaxRetries = 2
    BackoffUnit = 1
    MaxFaults = 1
    MaxCollisions = 1
INVARIANTS TypeOK RetriesRespected LeaseExclusive EndedIsOver
PROPERTIES FinishedIsFinal ImplementsLifecycle LeaseRecovery OldestIsClosed StreamEnds
