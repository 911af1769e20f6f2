SPECIFICATION FairSpec
CONSTANTS
    Requests = {r1, r2}
    Attempts = 2
    MaxRequests = 2
    Trip = 2
    Interval = 1
    Timeout = 1
INVARIANTS ProbesBounded
PROPERTIES ImplementsBreaker TripsOnStreak RequestsEnd FalRecovers
